---------------------------- MODULE Spec2Model ----------------------------
(***************************************************************************)
(* GCP inventory report generation.                                        *)
(*                                                                         *)
(* The repository holds two implementations of the same tool:              *)
(*   "pkg"    : src/gcp_inventory/inventory.py (Cloud Asset client, one    *)
(*              sheet, google-cloud-storage upload)                        *)
(*   "script" : src/inventory.py (gcloud CLI, one sheet per resource kind, *)
(*              gcloud storage cp upload)                                  *)
(* Text is modelled as a sequence of one-character strings, so that        *)
(* slicing, stripping and character replacement are computed as the code   *)
(* computes them.                                                          *)
(***************************************************************************)
EXTENDS Integers, Sequences, FiniteSets, TLC

VARIABLES
    impl,        \* which implementation runs: "pkg" or "script"
    used_names,  \* the run-scoped set of sheet names already assigned
    pool,        \* sanitizer harness: which label pool the run draws from
    labels,      \* sanitizer harness: the labels passed so far, in order
    names,       \* sanitizer harness: the names returned so far, in order
    items,       \* flattening harness: the records handed to the exporter
    df,          \* flattening harness: the table (DataFrame) built from them
    pc,          \* main: where the run is
    status,      \* main: "running", "exit0", "exit2" (configuration error) or "raised"
    argv,        \* main: the command line
    projects,    \* main: the parsed project list
    pidx,        \* main: index of the project being collected
    combined,    \* script main: the ResourceSet, an ordered dict of key -> value
    resources,   \* gather_resources: its dict under construction
    assets,      \* the records the broad search returned (pkg: `resources`)
    out,         \* gather_resources: local `out`, the last command output
    enabled,     \* gather_resources: what is_service_enabled returned
    issued,      \* every external call made, in order
    notes,       \* every diagnostic printed or logged, in order
    sheets,      \* the sheets in the workbook, in order; complete or cut short
    eidx,        \* resources_to_excel: index of the entry being written
    file,        \* the local spreadsheet: "absent", "invalid", "workbook", or
                 \* "partial" (saved while an exception left the writer)
    ok           \* script main: what upload_to_gcs returned

sanVars == <<pool, labels, names>>
flatVars == <<items, df>>
runVars == <<pc, status, argv, projects, pidx, combined, resources, assets, out,
             enabled, issued, notes, sheets, eidx, file, ok>>
vars == <<impl, used_names, sanVars, flatVars, runVars>>

Impls == {"pkg", "script"}

---------------------------------------------------------------------------
(* Text helpers: Python str operations on sequences of characters.        *)

Min(a, b) == IF a < b THEN a ELSE b
Max(a, b) == IF a > b THEN a ELSE b
Range(s) == {s[i] : i \in 1..Len(s)}

\* The element of a one-element set.  A value that is used more than once
\* is named by a bound variable, The({e(v) : v \in {d}}) standing for e(d).
The(S) == CHOOSE e \in S : TRUE

\* s[:n]
Slice(s, n) ==
    IF n >= 0 THEN SubSeq(s, 1, Min(n, Len(s)))
    ELSE SubSeq(s, 1, Max(0, Len(s) + n))

\* c * n
RECURSIVE Rep(_, _)
Rep(c, n) == IF n <= 0 THEN <<>> ELSE <<c>> \o Rep(c, n - 1)

Digits == <<"0", "1", "2", "3", "4", "5", "6", "7", "8", "9">>

\* str(n) for n >= 0
RECURSIVE IntStr(_)
IntStr(n) == IF n < 10 THEN <<Digits[n + 1]>>
             ELSE IntStr(n \div 10) \o <<Digits[(n % 10) + 1]>>

\* A character is a one-character string where TLA+ can write it (printable
\* ASCII but the backquote, tab, newline, form feed, carriage return) and
\* otherwise the string "U+XXXX" naming its code point.

\* chr(32) .. chr(126)
Ascii ==
   <<" ", "!", "\"", "#", "$", "%", "&", "'", "(", ")", "*", "+", ",", "-", ".", "/",
      "0", "1", "2", "3", "4", "5", "6", "7", "8", "9", ":", ";", "<", "=", ">", "?",
      "@", "A", "B", "C", "D", "E", "F", "G", "H", "I", "J", "K", "L", "M", "N", "O",
      "P", "Q", "R", "S", "T", "U", "V", "W", "X", "Y", "Z", "[", "\\", "]", "^", "_",
      "U+0060", "a", "b", "c", "d", "e", "f", "g", "h", "i", "j", "k", "l", "m", "n", "o",
      "p", "q", "r", "s", "t", "u", "v", "w", "x", "y", "z", "{", "|", "}", "~">>

HexUpper == <<"0", "1", "2", "3", "4", "5", "6", "7", "8", "9", "A", "B", "C", "D", "E", "F">>
HexLower == <<"0", "1", "2", "3", "4", "5", "6", "7", "8", "9", "a", "b", "c", "d", "e", "f">>

\* '%04X' % n, as one string
RECURSIVE HexName(_, _)
HexName(n, width) ==
    IF n = 0 /\ width <= 0 THEN ""
    ELSE HexName(n \div 16, width - 1) \o HexUpper[(n % 16) + 1]

\* chr(cp)
CharOf(cp) ==
    IF cp \in 32..126 THEN Ascii[cp - 31]
    ELSE IF cp = 9 THEN "\t"
    ELSE IF cp = 10 THEN "\n"
    ELSE IF cp = 12 THEN "\f"
    ELSE IF cp = 13 THEN "\r"
    ELSE "U+" \o HexName(cp, 4)

\* The code points c with chr(c).isspace(): what str.strip() removes.
WhitespaceCodes ==
    (9..13) \cup (28..32) \cup {133, 160, 5760} \cup (8192..8202)
        \cup {8232, 8233, 8239, 8287, 12288}
Whitespace == {CharOf(cp) : cp \in WhitespaceCodes}

RECURSIVE lstrip(_)
lstrip(s) == IF s # <<>> /\ Head(s) \in Whitespace THEN lstrip(Tail(s)) ELSE s

RECURSIVE rstrip(_)
rstrip(s) == IF s # <<>> /\ s[Len(s)] \in Whitespace
             THEN rstrip(SubSeq(s, 1, Len(s) - 1)) ELSE s

\* str.strip()
strip(s) == rstrip(lstrip(s))

\* ''.join(ch for ch in s if ch not in bad)
RECURSIVE RemoveChars(_, _)
RemoveChars(s, bad) ==
    IF s = <<>> THEN <<>>
    ELSE (IF Head(s) \in bad THEN <<>> ELSE <<Head(s)>>) \o RemoveChars(Tail(s), bad)

\* ''.join('_' if c in bad else c for c in s)
ReplaceChars(s, bad) == [i \in 1..Len(s) |-> IF s[i] \in bad THEN "_" ELSE s[i]]

\* An optional text: None, or a str.
None == [some |-> FALSE, v |-> <<>>]
Some(s) == [some |-> TRUE, v |-> s]
\* `if x:` for an optional text
Truthy(o) == o.some /\ o.v # <<>>

\* The command line and the environment: --project, --bucket, --output
\* (None when the option is not given), --use-asset, and
\* GOOGLE_CLOUD_PROJECT.
NoArgv == [project |-> None, bucket |-> None, output |-> None, use_asset |-> FALSE,
           env |-> None]

---------------------------------------------------------------------------
(* Sheet-name sanitizers.                                                  *)

\* set(r":\\/*?[]") : the raw string holds the backslash twice
INVALID_SHEET_CHARS == {":", "\\", "/", "*", "?", "[", "]"}
MAX_SHEET_LEN == 31

\* invalid = ':\\/?*[]'
invalid == {":", "\\", "/", "?", "*", "[", "]"}
\* the literal 31 of s[:31] and of the length test in the nested sanitize
SCRIPT_MAX_LEN == 31

sheet == <<"s", "h", "e", "e", "t">>

\* f"_{suffix}"
Tail_(suffix) == <<"_">> \o IntStr(suffix)

\* pkg: out = ''.join(...); out = out[:MAX_SHEET_LEN].strip() or 'sheet'
pkg_base_NoDefault(name) ==
    strip(Slice(RemoveChars(name, INVALID_SHEET_CHARS), MAX_SHEET_LEN))
pkg_base(name) ==
    LET cut == strip(Slice(RemoveChars(name, INVALID_SHEET_CHARS), MAX_SHEET_LEN))
    IN  IF cut = <<>> THEN sheet ELSE cut

\* pkg: one pass of the while body: out = (base[:MAX_SHEET_LEN - len(tail)] + tail).strip()
pkg_suffixed_NoTruncate(b, suffix) == strip(b \o Tail_(suffix))
pkg_suffixed(b, suffix) ==
    strip(Slice(b, MAX_SHEET_LEN - Len(Tail_(suffix))) \o Tail_(suffix))

\* pkg: while out in used_names: ...; suffix += 1
RECURSIVE pkg_while(_, _, _, _)
pkg_while(cur, b, suffix, used) ==
    IF cur \in used THEN pkg_while(pkg_suffixed(b, suffix), b, suffix + 1, used)
    ELSE cur

\* pkg: the name sanitize_sheet_name returns (and adds to used_names)
sanitize_sheet_name(name, used) == pkg_while(pkg_base(name), pkg_base(name), 1, used)

\* script: s = ''.join('_' if c in invalid else c for c in name); s = s[:31]
script_base(name) == Slice(ReplaceChars(name, invalid), SCRIPT_MAX_LEN)

\* script: one pass of the while body
script_suffixed(b, i) ==
    IF Len(b) + Len(Tail_(i)) > SCRIPT_MAX_LEN
    THEN Slice(b, SCRIPT_MAX_LEN - Len(Tail_(i))) \o Tail_(i)
    ELSE b \o Tail_(i)

\* script: while s in used or s == '': ...; i += 1
RECURSIVE script_while(_, _, _, _)
script_while(s, b, i, used) ==
    IF s \in used \/ s = <<>> THEN script_while(script_suffixed(b, i), b, i + 1, used)
    ELSE s

\* script: the name the nested sanitize returns (and adds to used)
sanitize_FromTwo(name, used) == script_while(script_base(name), script_base(name), 2, used)
sanitize(name, used) == script_while(script_base(name), script_base(name), 1, used)

\* The sanitizer of the implementation at hand, and its local `base`.
Sanitizer(im, name, used) ==
    IF im = "pkg" THEN sanitize_sheet_name(name, used) ELSE sanitize(name, used)
BaseOf(im, name) == IF im = "pkg" THEN pkg_base(name) ELSE script_base(name)

---------------------------------------------------------------------------
(* Records and tables.  A value is what json.loads can return: an int, a   *)
(* float, a bool, None, a text, a mapping (an ordered sequence of          *)
(* <<key, value>> pairs, as a Python dict is) or a sequence of values.  A  *)
(* table has its columns in order and one row per record, each row giving  *)
(* every column a cell.                                                    *)

\* An int: its sign and its decimal digits (no leading zero; "0" for 0).
\* The ints of the program have at most 4300 digits (json.loads) or 64 bits
\* (MessageToDict).
IntV(neg, digs) == [t |-> "num", neg |-> neg /\ digs # <<"0">>, digs |-> digs]
Num(n) == IntV(n < 0, IntStr(IF n < 0 THEN -n ELSE n))
\* A finite float, a double: 0.d1d2...dn * 10^pt is the decimal that
\* float.__repr__ gives it, the digits without leading or trailing zero
\* (none for 0.0).
Float(neg, digs, pt) == [t |-> "float", neg |-> neg, digs |-> digs, pt |-> pt]
Inf(neg) == [t |-> "inf", neg |-> neg]
NaN == [t |-> "nan"]
Bool(b) == [t |-> "bool", b |-> b]
Null == [t |-> "null"]
Text(s) == [t |-> "text", s |-> s]
MapV(m) == [t |-> "map", m |-> m]
ListV(l) == [t |-> "list", l |-> l]

\* isinstance(v, (dict, list))
IsNested(v) == v.t \in {"map", "list"}

\* json.encoder: one character of a string, escaped (ensure_ascii=False)
ControlChars == {CharOf(cp) : cp \in 0..31}
EscapeChar(c) ==
    IF c = "\"" THEN <<"\\", "\"">>
    ELSE IF c = "\\" THEN <<"\\", "\\">>
    ELSE IF c = "\n" THEN <<"\\", "n">>
    ELSE IF c = "\r" THEN <<"\\", "r">>
    ELSE IF c = "\t" THEN <<"\\", "t">>
    ELSE IF c = "\f" THEN <<"\\", "f">>
    ELSE IF c = CharOf(8) THEN <<"\\", "b">>
    ELSE IF c \in ControlChars
         THEN LET cp == CHOOSE n \in 0..31 : CharOf(n) = c
              IN  <<"\\", "u", "0", "0", HexLower[(cp \div 16) + 1], HexLower[(cp % 16) + 1]>>
    ELSE <<c>>

\* The first index from i on whose character is in the set, Len(s) + 1 if
\* there is none; and the first whose character is not.
FirstIn(s, i, set) ==
    IF \E j \in i..Len(s) : s[j] \in set
    THEN CHOOSE j \in i..Len(s) : s[j] \in set /\ \A k \in i..(j - 1) : s[k] \notin set
    ELSE Len(s) + 1
FirstNotIn(s, i, set) ==
    IF \E j \in i..Len(s) : s[j] \notin set
    THEN CHOOSE j \in i..Len(s) : s[j] \notin set /\ \A k \in i..(j - 1) : s[k] \in set
    ELSE Len(s) + 1

\* json.encoder.ESCAPE, json.decoder.STRINGCHUNK: the characters that end
\* a run of plain characters
Escaped == {"\"", "\\"} \cup ControlChars

\* json.encoder.encode_basestring(s)
RECURSIVE EscapeChars(_)
EscapeChars(s) ==
    LET j == FirstIn(s, 1, Escaped) IN
    IF j > Len(s) THEN s
    ELSE SubSeq(s, 1, j - 1) \o EscapeChar(s[j]) \o EscapeChars(SubSeq(s, j + 1, Len(s)))
encode_basestring(s) == <<"\"">> \o EscapeChars(s) \o <<"\"">>

\* float.__repr__: fixed notation when the decimal point lies within
\* (-4, 16] of the first digit, scientific notation otherwise.
float_repr(v) ==
    LET n == Len(v.digs)
        e == v.pt - 1
    IN  (IF v.neg THEN <<"-">> ELSE <<>>) \o
        (IF n = 0 THEN <<"0", ".", "0">>
         ELSE IF v.pt > 16 \/ v.pt <= -4
              THEN <<v.digs[1]>> \o (IF n > 1 THEN <<".">> \o Tail(v.digs) ELSE <<>>)
                   \o <<"e", IF e < 0 THEN "-" ELSE "+">>
                   \o (IF e \in -9..9 THEN <<"0">> ELSE <<>>)
                   \o IntStr(IF e < 0 THEN -e ELSE e)
         ELSE IF v.pt <= 0 THEN <<"0", ".">> \o Rep("0", -v.pt) \o v.digs
         ELSE IF v.pt >= n THEN v.digs \o Rep("0", v.pt - n) \o <<".", "0">>
         ELSE SubSeq(v.digs, 1, v.pt) \o <<".">> \o SubSeq(v.digs, v.pt + 1, n))

\* json.dumps(v, ensure_ascii=False): default separators ", " and ": ".
\* Its arguments are parts of what MessageToDict built from a protobuf
\* message: ints of at most 64 bits, nested no deeper than a message can be,
\* so the encoder's ValueError (an int of more than max_str_digits digits)
\* and RecursionError do not arise.
RECURSIVE dumps(_)
RECURSIVE dumps_pairs(_)
RECURSIVE dumps_elems(_)
dumps(v) ==
    CASE v.t = "num" -> (IF v.neg THEN <<"-">> ELSE <<>>) \o v.digs
      [] v.t = "float" -> float_repr(v)
      [] v.t = "inf" -> (IF v.neg THEN <<"-">> ELSE <<>>)
                        \o <<"I", "n", "f", "i", "n", "i", "t", "y">>
      [] v.t = "nan" -> <<"N", "a", "N">>
      [] v.t = "bool" -> IF v.b THEN <<"t", "r", "u", "e">> ELSE <<"f", "a", "l", "s", "e">>
      [] v.t = "null" -> <<"n", "u", "l", "l">>
      [] v.t = "text" -> encode_basestring(v.s)
      [] v.t = "map" -> <<"{">> \o dumps_pairs(v.m) \o <<"}">>
      [] v.t = "list" -> <<"[">> \o dumps_elems(v.l) \o <<"]">>
dumps_pairs(m) ==
    IF m = <<>> THEN <<>>
    ELSE encode_basestring(m[1][1]) \o <<":", " ">> \o dumps(m[1][2])
         \o (IF Len(m) > 1 THEN <<",", " ">> \o dumps_pairs(Tail(m)) ELSE <<>>)
dumps_elems(l) ==
    IF l = <<>> THEN <<>>
    ELSE dumps(l[1]) \o (IF Len(l) > 1 THEN <<",", " ">> \o dumps_elems(Tail(l)) ELSE <<>>)

Keys(m) == [i \in 1..Len(m) |-> m[i][1]]
\* d[k] for a key the mapping has
Lookup(m, k) == m[CHOOSE i \in 1..Len(m) : m[i][1] = k][2]
HasKey(m, k) == \E i \in 1..Len(m) : m[i][1] = k

\* d[k] = v on an ordered dict
Put(m, k, v) ==
    IF HasKey(m, k) THEN [i \in 1..Len(m) |-> IF m[i][1] = k THEN <<k, v>> ELSE m[i]]
    ELSE Append(m, <<k, v>>)

\* d.get(k)
Get(m, k) == IF HasKey(m, k) THEN Lookup(m, k) ELSE Null
\* The cell a dict gives a row label: its value, or an empty cell
Cell(m, k) == IF HasKey(m, k) THEN Lookup(m, k) ELSE NaN

\* The keys of a list of dicts in order of first appearance.
RECURSIVE AppendNew(_, _)
AppendNew(cols, ks) ==
    IF ks = <<>> THEN cols
    ELSE AppendNew(IF Head(ks) \in Range(cols) THEN cols ELSE Append(cols, Head(ks)),
                   Tail(ks))
RECURSIVE UnionColumns(_)
UnionColumns(rows) ==
    IF rows = <<>> THEN <<>>
    ELSE AppendNew(UnionColumns(SubSeq(rows, 1, Len(rows) - 1)), Keys(rows[Len(rows)]))

\* pd.DataFrame(rows) for a list of dicts: the columns are the union of the
\* keys, a key a row lacks is NaN.
DataFrame(rows) ==
    LET cols == UnionColumns(rows) IN
    [made |-> TRUE,
     columns |-> cols,
     rows |-> [i \in 1..Len(rows) |->
                 [c \in Range(cols) |->
                     IF HasKey(rows[i], c) THEN Lookup(rows[i], c) ELSE NaN]]]

NoFrame == [made |-> FALSE, columns |-> <<>>, rows |-> <<>>]

\* pkg: row[k] = json.dumps(v, ensure_ascii=False) if nested else v
pkg_row_NoDumps(r) == r
pkg_row(r) ==
    [i \in 1..Len(r) |->
        <<r[i][1], IF IsNested(r[i][2]) THEN Text(dumps(r[i][2])) ELSE r[i][2]>>]

\* pkg: the table resources_to_excel builds from a list of records
pkg_frame(recs) ==
    IF recs = <<>> THEN DataFrame(<< <<>> >>)
    ELSE DataFrame([i \in 1..Len(recs) |-> pkg_row(recs[i])])

\* pandas _normalise_json: the leaves of a dict, keyed by the dotted path
RECURSIVE normalise_json(_, _)
normalise_json(m, key_string) ==
    IF m = <<>> THEN <<>>
    ELSE LET k == m[1][1]
             v == m[1][2]
             new_key == IF key_string = <<>> THEN k ELSE key_string \o <<".">> \o k
         IN  (IF v.t = "map" THEN normalise_json(v.m, new_key) ELSE << <<new_key, v>> >>)
             \o normalise_json(Tail(m), key_string)

\* pandas _normalise_json_ordered: top-level non-dict entries first, then
\* the flattened dict entries
normalise_json_ordered(r) ==
    SelectSeq(r, LAMBDA e : e[2].t # "map")
        \o normalise_json(SelectSeq(r, LAMBDA e : e[2].t = "map"), <<>>)

\* pd.json_normalize(items) with default arguments
json_normalize(its) ==
    DataFrame([i \in 1..Len(its) |-> normalise_json_ordered(its[i])])

\* script: the table resources_to_excel builds for one entry whose value is
\* a list of records (pd.DataFrame([]) for the empty list)
script_frame(its) ==
    IF Len(its) > 0 THEN json_normalize(its) ELSE DataFrame(<<>>)

Frame(im, its) == IF im = "pkg" THEN pkg_frame(its) ELSE script_frame(its)

---------------------------------------------------------------------------
(* Flattening harness: one table built from a bounded list of records.     *)

MaxRecords == 2   \* records per list

k_name == <<"n", "a", "m", "e">>
k_labels == <<"l", "a", "b", "e", "l", "s">>
k_env == <<"e", "n", "v">>
k_tier == <<"t", "i", "e", "r">>
k_n == <<"n">>
x == <<"x">>

FieldNames == <<k_name, k_labels>>
FieldValues ==
    {Num(1), Text(x),
     MapV(<< <<k_env, Text(x)>> >>),
     MapV(<< <<k_env, MapV(<< <<k_tier, Num(1)>> >>)>>, <<k_n, Num(1)>> >>),
     ListV(<<Num(-1), Text(<<"a", "\"", "b">>), Bool(TRUE), Null>>)}

\* Every record over FieldNames: each field absent or holding some value.
Records ==
    {SelectSeq([i \in 1..Len(FieldNames) |-> <<FieldNames[i], f[i]>>],
               LAMBDA e : e[2] # NaN)
        : f \in [1..Len(FieldNames) -> FieldValues \cup {NaN}]}

RecordLists == UNION {[1..n -> Records] : n \in 0..MaxRecords}

IdleFlatten == items = <<>> /\ df = NoFrame
IdleSanitize == pool = "none" /\ used_names = {} /\ labels = <<>> /\ names = <<>>
IdleRun ==
    /\ pc = "idle" /\ status = "idle" /\ argv = NoArgv /\ projects = <<>> /\ pidx = 0
    /\ combined = <<>> /\ resources = <<>> /\ assets = ListV(<<>>) /\ out = None
    /\ enabled = "unset" /\ issued = <<>> /\ notes = <<>> /\ sheets = <<>>
    /\ eidx = 0 /\ file = "absent" /\ ok = "unset"

InitFlatten ==
    /\ impl \in Impls
    /\ IdleSanitize
    /\ IdleFlatten
    /\ IdleRun

\* The table the exporter builds from a list of records.
Flatten ==
    /\ ~df.made
    /\ \E its \in RecordLists :
        /\ items' = its
        /\ df' = Frame(impl, its)
    /\ UNCHANGED <<impl, used_names, sanVars, runVars>>

NextFlatten == Flatten

SpecFlatten == InitFlatten /\ [][NextFlatten]_vars

---------------------------------------------------------------------------
(* Properties of the flattening.                                           *)

TopLevelNames(its) == UNION {Range(Keys(its[i])) : i \in 1..Len(its)}

\* Every leaf of a mapping, with the dotted path of keys leading to it.
RECURSIVE Leaves(_, _)
Leaves(m, prefix) ==
    UNION {LET path == IF prefix = <<>> THEN m[i][1] ELSE prefix \o <<".">> \o m[i][1]
           IN  IF m[i][2].t = "map" THEN Leaves(m[i][2].m, path)
               ELSE {<<path, m[i][2]>>}
          : i \in 1..Len(m)}
LeafPaths(r) == {l[1] : l \in Leaves(r, <<>>)}

\* Columns are the union of the top-level names, a missing field is an
\* empty cell, a nested value is one cell of text under its field's name.
TopLevelColumns ==
    /\ Range(df.columns) = TopLevelNames(items)
    /\ \A i \in 1..Len(items) : \A c \in Range(df.columns) :
        /\ ~HasKey(items[i], c) => df.rows[i][c] = NaN
        /\ (HasKey(items[i], c) /\ IsNested(Lookup(items[i], c)))
              => df.rows[i][c].t = "text"

\* C4 as stated, of both exporters.
C4_AsStated == df.made => TopLevelColumns

\* C4, amended.  The package's exporter behaves as stated: top-level names
\* as columns, empty cells for missing fields, a nested mapping or sequence
\* as the JSON text of the value in one cell, other values unchanged.  The
\* script's exporter (pd.json_normalize) expands each nested mapping into
\* one column per leaf, named by the dotted path; its columns are the union
\* of the records' leaf paths, with empty cells for the paths a record
\* lacks, and a sequence stays in one cell under its path.
C4_ColumnsPerImplementation ==
    df.made =>
        /\ impl = "pkg" =>
            /\ TopLevelColumns
            /\ Len(df.rows) = Max(1, Len(items))
            /\ \A i \in 1..Len(items) : \A c \in Range(Keys(items[i])) :
                 LET v == Lookup(items[i], c) IN
                 df.rows[i][c] = IF IsNested(v) THEN Text(dumps(v)) ELSE v
        /\ impl = "script" =>
            /\ Range(df.columns) = UNION {LeafPaths(items[i]) : i \in 1..Len(items)}
            /\ Len(df.rows) = Len(items)
            /\ \A i \in 1..Len(items) : \A c \in Range(df.columns) :
                 /\ c \notin LeafPaths(items[i]) => df.rows[i][c] = NaN
                 /\ c \in LeafPaths(items[i]) => <<c, df.rows[i][c]>> \in Leaves(items[i], <<>>)
                 /\ df.rows[i][c].t # "map"

\* The package flattened two records with different fields: the second lacks
\* "name" (an empty cell) and the first holds a nested mapping (one cell of
\* JSON text).
C4_Witness ==
    /\ impl = "pkg" /\ df.made /\ Len(items) = 2
    /\ HasKey(items[1], k_name) /\ ~HasKey(items[2], k_name)
    /\ HasKey(items[1], k_labels) /\ HasKey(items[2], k_labels)
    /\ Lookup(items[1], k_labels) = MapV(<< <<k_env, Text(x)>> >>)
    /\ Lookup(items[2], k_labels).t = "list"
    /\ df.rows[2][k_name] = NaN
    /\ df.rows[1][k_labels] =
         Text(<<"{", "\"", "e", "n", "v", "\"", ":", " ", "\"", "x", "\"", "}">>)
    /\ df.columns = <<k_name, k_labels>>

---------------------------------------------------------------------------
(* Sanitizer harness: calls of one sanitizer sharing one used-name set.    *)

MaxCalls == 3       \* calls per run drawing from the wide label pool
MaxDeepCalls == 14  \* calls per run drawing from the two-label pool
MaxOver == 1        \* how far the long labels exceed the sheet-name limit

data == <<"d", "a", "t", "a">>
data_1 == <<"d", "a", "t", "a", "_", "1">>
data_2 == <<"d", "a", "t", "a", "_", "2">>
colons == <<":", ":", ":">>
data_ff == <<"d", "a", "t", "a", "\f">>   \* 'data\x0c'
reports == <<"R", "e", "p", "o", "r", "t", "s", ":", "Q", "1", "/", "2", "0", "2", "4">>

ShortLabels ==
    {<<>>, colons, <<" ">>, sheet, <<"_", "1">>, data, data_1, data_ff, reports}
LongLabels ==
    {Rep("a", n) \o t : n \in (MAX_SHEET_LEN - 2)..(MAX_SHEET_LEN + MaxOver),
                        t \in {<<>>, <<"_", "1">>, <<":">>}}
DeepLabels == {data, Rep("a", MAX_SHEET_LEN)}

PoolLabels(p) == IF p = "wide" THEN ShortLabels \cup LongLabels ELSE DeepLabels
PoolCalls(p) == IF p = "wide" THEN MaxCalls ELSE MaxDeepCalls

InitSanitize ==
    /\ impl \in Impls
    /\ pool \in {"wide", "deep"}
    /\ used_names = {}
    /\ labels = <<>>
    /\ names = <<>>
    /\ IdleFlatten
    /\ IdleRun

\* One call sanitize(l, used_names): computes the name, records it in the set.
SanitizeCall ==
    /\ Len(names) < PoolCalls(pool)
    /\ \E l \in PoolLabels(pool) :
        LET nm == Sanitizer(impl, l, used_names) IN
        /\ labels' = Append(labels, l)
        /\ names' = Append(names, nm)
        /\ used_names' = used_names \cup {nm}
    /\ UNCHANGED <<impl, pool, flatVars, runVars>>

NextSanitize == SanitizeCall

SpecSanitize == InitSanitize /\ [][NextSanitize]_vars

---------------------------------------------------------------------------
(* Properties of the sanitizers.                                           *)

Forbidden == {":", "\\", "/", "?", "*", "[", "]"}

\* The used-name set as it was before the i-th call of the run.
Before(i) == Range(SubSeq(names, 1, i - 1))

\* base + "_k", the base shortened so that the whole fits in 31 characters.
WithSuffix(b, k) ==
    IF Len(b) + Len(Tail_(k)) > 31
    THEN SubSeq(b, 1, 31 - Len(Tail_(k))) \o Tail_(k)
    ELSE b \o Tail_(k)

\* name is b + "_k" for the smallest k >= 1 whose name is not in U.
SmallestFree(name, b, U) ==
    \E k \in 1..(Cardinality(U) + 1) :
        /\ name = WithSuffix(b, k)
        /\ name \notin U
        /\ \A j \in 1..(k - 1) : WithSuffix(b, j) \in U
        /\ SubSeq(name, Len(name) - Len(Tail_(k)) + 1, Len(name)) = Tail_(k)
        /\ Len(name) <= 31

\* C1: every name a sanitizer returns has no forbidden character, has at
\* most 31 characters, was not in the used-name set before its call and is
\* in it afterwards; so the names of one run are pairwise distinct.
C1_NamesValidAndDistinct ==
    /\ used_names = Range(names)
    /\ \A i \in 1..Len(names) :
        /\ Range(names[i]) \cap Forbidden = {}
        /\ Len(names[i]) <= 31
        /\ names[i] \notin Before(i)
        /\ \A j \in 1..(i - 1) : names[j] # names[i]

\* Two different labels, both longer than 31 characters, that are equal
\* after truncation, got two different names.
C1_Witness ==
    \E i \in 1..Len(names), j \in 1..Len(names) :
        /\ i < j
        /\ labels[i] # labels[j]
        /\ Len(labels[i]) > 31 /\ Len(labels[j]) > 31
        /\ BaseOf(impl, labels[i]) = BaseOf(impl, labels[j])
        /\ names[i] # names[j]
        /\ Len(names[j]) = 31

\* C2: when the sanitized, truncated candidate is already used, the name
\* returned is base + "_k" for the smallest free k >= 1, the base shortened
\* so that "_k" is kept in full within 31 characters; "data" after {"data"}
\* gives "data_1" and after {"data", "data_1"} gives "data_2".
C2_SmallestFreeSuffix ==
    \A i \in 1..Len(names) :
        /\ BaseOf(impl, labels[i]) \in Before(i)
              => SmallestFree(names[i], BaseOf(impl, labels[i]), Before(i))
        /\ (labels[i] = data /\ Before(i) = {data}) => names[i] = data_1
        /\ (labels[i] = data /\ Before(i) = {data, data_1})
              => names[i] = data_2

\* A 31-character base was shortened to 28 characters to keep "_10", and
\* "data" was given "data_2" in the same run.
C2_Witness ==
    /\ Rep("a", 28) \o <<"_", "1", "0">> \in Range(names)
    /\ data_2 \in Range(names)

\* The candidate of the label is empty after forbidden-character handling
\* and truncation.
EmptyCandidate(im, l) ==
    IF im = "pkg" THEN Slice(RemoveChars(l, INVALID_SHEET_CHARS), MAX_SHEET_LEN) = <<>>
    ELSE script_base(l) = <<>>

\* C3 as stated: a label that is empty after forbidden-character handling
\* and truncation is named "sheet" (when "sheet" is still free).
C3_AsStated ==
    \A i \in 1..Len(names) :
        (EmptyCandidate(impl, labels[i]) /\ sheet \notin Before(i))
            => names[i] = sheet

\* C3, amended: such a label never gets an empty name.  The package's
\* sanitize_sheet_name names it "sheet" (then "sheet_1", ...); the script's
\* nested sanitize, which replaces forbidden characters by "_" so that only
\* the empty label qualifies, names it "_1" (then "_2", ...).  A repeat in
\* the same run gets a different name.
C3_PlaceholderPerImplementation ==
    \A i \in 1..Len(names) :
        EmptyCandidate(impl, labels[i]) =>
            /\ names[i] # <<>>
            /\ \A j \in 1..(i - 1) : names[j] # names[i]
            /\ impl = "pkg" =>
                  /\ sheet \notin Before(i) => names[i] = sheet
                  /\ sheet \in Before(i) => SmallestFree(names[i], sheet, Before(i))
            /\ impl = "script" =>
                  /\ labels[i] = <<>>
                  /\ SmallestFree(names[i], <<>>, Before(i))
                  /\ <<"_", "1">> \notin Before(i) => names[i] = <<"_", "1">>

\* Both implementations met their case: the script named two empty labels
\* "_1" and "_2", or the package named "" and ":::" "sheet" and "sheet_1".
C3_Witness ==
    /\ Len(names) = 2
    /\ \/ /\ impl = "script"
          /\ labels = <<<<>>, <<>>>>
          /\ names = <<<<"_", "1">>, <<"_", "2">>>>
       \/ /\ impl = "pkg"
          /\ labels = <<<<>>, colons>>
          /\ names = <<sheet, sheet \o <<"_", "1">>>>

---------------------------------------------------------------------------
(* External commands and their output.                                     *)

compute_instances == <<"c", "o", "m", "p", "u", "t", "e", "_", "i", "n", "s", "t", "a", "n", "c", "e", "s">>
gke_clusters == <<"g", "k", "e", "_", "c", "l", "u", "s", "t", "e", "r", "s">>
cloud_functions == <<"c", "l", "o", "u", "d", "_", "f", "u", "n", "c", "t", "i", "o", "n", "s">>
sql_instances == <<"s", "q", "l", "_", "i", "n", "s", "t", "a", "n", "c", "e", "s">>
storage_buckets == <<"s", "t", "o", "r", "a", "g", "e", "_", "b", "u", "c", "k", "e", "t", "s">>
asset_resources == <<"a", "s", "s", "e", "t", "_", "r", "e", "s", "o", "u", "r", "c", "e", "s">>
assets_label == <<"a", "s", "s", "e", "t", "s">>
container_api == <<"c", "o", "n", "t", "a", "i", "n", "e", "r", ".", "g", "o", "o", "g", "l", "e", "a", "p", "i", "s", ".", "c", "o", "m">>
compute_api == <<"c", "o", "m", "p", "u", "t", "e", ".", "g", "o", "o", "g", "l", "e", "a", "p", "i", "s", ".", "c", "o", "m">>
k_serviceName == <<"s", "e", "r", "v", "i", "c", "e", "N", "a", "m", "e">>
k_config == <<"c", "o", "n", "f", "i", "g">>
k_error == <<"e", "r", "r", "o", "r">>
garbage == <<"E", "R", "R">>
warning_container == <<"W", "A", "R", "N", "I", "N", "G", ":", " ", "c", "o", "n", "t", "a", "i", "n", "e", "r", ".", "g", "o", "o", "g", "l", "e", "a", "p", "i", "s", ".", "c", "o", "m">>

\* A process result: the exit code is zero or not, and the bytes written to
\* stdout and to stderr.
Exit(success, stdout, stderr) == [success |-> success, stdout |-> stdout, stderr |-> stderr]

\* ord(c) of an ASCII character, and the bytes of an ASCII text
ord(c) == CHOOSE cp \in 0..127 : CharOf(cp) = c
Bytes(s) == SubSeq([i \in 1..Len(s) |-> ord(s[i])], 1, Len(s))

\* subprocess.run(text=True) decodes both pipes with the locale's encoding,
\* UTF-8, errors='strict'.  The length of the sequence a lead byte opens
\* (0: no lead byte), and the bytes that may follow it.
utf8_width(c) ==
    IF c < 128 THEN 1
    ELSE IF c \in 194..223 THEN 2
    ELSE IF c \in 224..239 THEN 3
    ELSE IF c \in 240..244 THEN 4
    ELSE 0
second_bytes(c) ==
    IF c = 224 THEN 160..191
    ELSE IF c = 237 THEN 128..159
    ELSE IF c = 240 THEN 144..191
    ELSE IF c = 244 THEN 128..143
    ELSE 128..191
well_formed(b, i, w) ==
    /\ w > 0
    /\ i + w - 1 <= Len(b)
    /\ w > 1 => b[i + 1] \in second_bytes(b[i])
    /\ \A k \in 2..(w - 1) : b[i + k] \in 128..191
code_point(b, i, w) ==
    CASE w = 2 -> (b[i] % 32) * 64 + (b[i + 1] % 64)
      [] w = 3 -> (b[i] % 16) * 4096 + (b[i + 1] % 64) * 64 + (b[i + 2] % 64)
      [] w = 4 -> (b[i] % 8) * 262144 + (b[i + 1] % 64) * 4096 + (b[i + 2] % 64) * 64
                  + (b[i + 3] % 64)

\* bytes.decode('utf-8') from byte i on, acc being the text so far: the
\* text, or UnicodeDecodeError.  j is the first byte at or after i that is
\* not ASCII.
Decoded(s) == [ok |-> TRUE, s |-> s]
DecodeError == [ok |-> FALSE, s |-> <<>>]
RECURSIVE decode_from(_, _, _)
decode_char(b, j, acc, w0) ==
    The({IF ~well_formed(b, j, w) THEN DecodeError
         ELSE decode_from(b, j + w, Append(acc, CharOf(code_point(b, j, w))))
         : w \in {w0}})
decode_run(b, i, acc, j0) ==
    The({IF j > Len(b) THEN Decoded(acc \o [k \in 1..(j - i) |-> CharOf(b[i + k - 1])])
         ELSE decode_char(b, j, acc \o [k \in 1..(j - i) |-> CharOf(b[i + k - 1])],
                          utf8_width(b[j]))
         : j \in {j0}})
decode_from(b, i0, acc0) ==
    The({decode_run(b, i, acc, FirstIn(b, i, 128..255)) : i \in {i0}, acc \in {acc0}})
decode(b) == decode_from(b, 1, <<>>)

\* io.TextIOWrapper, newline=None: '\r\n' and '\r' are read as '\n'
translate_newlines(s) ==
    IF \A i \in 1..Len(s) : s[i] # "\r" THEN s
    ELSE LET kept == SelectSeq(SubSeq([i \in 1..Len(s) |-> i], 1, Len(s)),
                               LAMBDA i : ~(s[i] = "\r" /\ i < Len(s) /\ s[i + 1] = "\n"))
         IN  SubSeq([k \in 1..Len(kept) |-> IF s[kept[k]] = "\r" THEN "\n" ELSE s[kept[k]]],
                    1, Len(kept))

\* What a call of run_cmd comes to: it returns (a str or None), or an
\* exception leaves it.
Returned(v) == [raised |-> FALSE, value |-> v]
UnicodeDecodeError == [raised |-> TRUE, value |-> None]

\* run_cmd: subprocess.run reads and decodes stdout and stderr, then looks at
\* the exit code.  Bytes that are not UTF-8 raise UnicodeDecodeError, which
\* run_cmd does not catch; a non-zero exit raises CalledProcessError, for
\* which run_cmd prints 'Command failed' and returns None; otherwise it
\* returns the text of stdout.
communicate(success, o0, e0) ==
    The({IF ~o.ok \/ ~e.ok THEN UnicodeDecodeError
         ELSE IF success THEN Returned(Some(translate_newlines(o.s)))
         ELSE Returned(None)
         : o \in {o0}, e \in {e0}})
run_cmd(r) == communicate(r.success, decode(r.stdout), decode(r.stderr))

\* The JSON documents the commands of the model may print.
RecFlat == MapV(<< <<k_name, Text(x)>> >>)
RecNested == MapV(<< <<k_name, Text(x)>>, <<k_labels, MapV(<< <<k_env, Text(x)>> >>)>> >>)
ErrorObject == MapV(<< <<k_error, Text(x)>> >>)
ServiceByName == MapV(<< <<k_name, Text(container_api)>> >>)
ServiceByServiceName == MapV(<< <<k_serviceName, Text(container_api)>> >>)
ServiceByConfig ==
    MapV(<< <<k_name, Text(x)>>, <<k_config, MapV(<< <<k_name, Text(container_api)>> >>)>> >>)
ServiceOther == MapV(<< <<k_name, Text(compute_api)>>, <<k_config, Text(x)>> >>)

\* `gcloud services list` names a service by its resource path.
service_path ==
    <<"p", "r", "o", "j", "e", "c", "t", "s", "/", "1", "/", "s", "e", "r", "v", "i", "c",
      "e", "s", "/", "c", "o", "n", "t", "a", "i", "n", "e", "r", ".", "g", "o", "o", "g",
      "l", "e", "a", "p", "i", "s", ".", "c", "o", "m">>
ServiceByPath == MapV(<< <<k_name, Text(service_path)>> >>)
ServiceByPathAndConfig ==
    MapV(<< <<k_name, Text(service_path)>>,
            <<k_config, MapV(<< <<k_name, Text(container_api)>> >>)>> >>)

\* json.dumps([RecNested], indent=2) and a newline, as gcloud --format=json
\* lays its output out.
listing_indented ==
    <<"[", "\n", " ", " ", "{", "\n", " ", " ", " ", " ", "\"", "n", "a", "m", "e", "\"",
      ":", " ", "\"", "x", "\"", ",", "\n", " ", " ", " ", " ", "\"", "l", "a", "b", "e",
      "l", "s", "\"", ":", " ", "{", "\n", " ", " ", " ", " ", " ", " ", "\"", "e", "n",
      "v", "\"", ":", " ", "\"", "x", "\"", "\n", " ", " ", " ", " ", "}", "\n", " ", " ",
      "}", "\n", "]", "\n">>
empty_list_line == <<"[", "]", "\n">>

\* json.decoder: a parse result is the value and the index after it, or an
\* exception: JSONDecodeError, the ValueError of int() for an integer of more
\* than max_str_digits digits, or the RecursionError of the scanner for a
\* document nested deeper than the interpreter's stack allows.
\* sys.int_info.default_max_str_digits and sys.getrecursionlimit() of the
\* interpreter
max_str_digits == 4300
recursion_limit == 1000
\* The frames on the stack when the scanner starts: <module>, main, the
\* gather function, json.loads, JSONDecoder.decode and raw_decode; one more
\* where gather_resources calls is_service_enabled.
gather_frames == 6
service_frames == 7
\* The scanner enters a recursive call for every array and object it opens;
\* the call that would make the depth of the stack reach the limit raises.
nesting_limit(frames) == recursion_limit - frames - 1
Ok(v, i) == [ok |-> TRUE, v |-> v, i |-> i]
Fail == [ok |-> FALSE, v |-> NaN, i |-> 0]

At(s, i, c) == i <= Len(s) /\ s[i] = c
StartsWith(s, i, w) == i + Len(w) - 1 <= Len(s) /\ SubSeq(s, i, i + Len(w) - 1) = w

\* json.decoder.WHITESPACE
JsonWhitespace == {" ", "\t", "\n", "\r"}
skip_ws(s, i) == FirstNotIn(s, i, JsonWhitespace)

\* int(c, 16) of one character, -1 if it is no hex digit
HexVal(c) ==
    IF \E k \in 1..16 : HexUpper[k] = c THEN (CHOOSE k \in 1..16 : HexUpper[k] = c) - 1
    ELSE IF \E k \in 11..16 : HexLower[k] = c THEN (CHOOSE k \in 11..16 : HexLower[k] = c) - 1
    ELSE -1

\* The four hex digits of \uXXXX at s[i..i+3], -1 if they are not there
hex4(s, i) ==
    IF i + 3 <= Len(s) /\ \A k \in 0..3 : HexVal(s[i + k]) >= 0
    THEN HexVal(s[i]) * 4096 + HexVal(s[i + 1]) * 256 + HexVal(s[i + 2]) * 16 + HexVal(s[i + 3])
    ELSE -1

\* json.decoder.BACKSLASH
Unescaped(e) ==
    CASE e = "\"" -> "\""
      [] e = "\\" -> "\\"
      [] e = "/" -> "/"
      [] e = "b" -> CharOf(8)
      [] e = "f" -> "\f"
      [] e = "n" -> "\n"
      [] e = "r" -> "\r"
      [] e = "t" -> "\t"

\* json.decoder.scanstring(s, i, strict=True), i just after the opening quote
RECURSIVE scanstring(_, _, _)
scanstring(s, i, acc) ==
    LET j == FirstIn(s, i, Escaped)
        run == acc \o SubSeq(s, i, j - 1)
    IN  IF j > Len(s) THEN Fail
        ELSE IF s[j] = "\"" THEN Ok(run, j + 1)
        ELSE IF s[j] # "\\" THEN Fail           \* a control character
        ELSE IF j + 1 > Len(s) THEN Fail
        ELSE IF s[j + 1] = "u"
             THEN LET hi == hex4(s, j + 2)
                      lo == IF StartsWith(s, j + 6, <<"\\", "u">>) THEN hex4(s, j + 8) ELSE -1
                  IN  IF hi < 0 THEN Fail
                      ELSE IF hi \in 55296..56319 /\ lo \in 56320..57343
                           THEN scanstring(s, j + 12,
                                    Append(run, CharOf(65536 + (hi - 55296) * 1024 + (lo - 56320))))
                           ELSE scanstring(s, j + 6, Append(run, CharOf(hi)))
        ELSE IF s[j + 1] \in {"\"", "\\", "/", "b", "f", "n", "r", "t"}
             THEN scanstring(s, j + 2, Append(run, Unescaped(s[j + 1])))
        ELSE Fail

DigitChars == {"0", "1", "2", "3", "4", "5", "6", "7", "8", "9"}
digits_end(s, i) == FirstNotIn(s, i, DigitChars)

\* d.lstrip('0') and d.rstrip('0')
lstrip0(d) == SubSeq(d, FirstNotIn(d, 1, {"0"}), Len(d))
rstrip0(d) ==
    IF \A i \in 1..Len(d) : d[i] = "0" THEN <<>>
    ELSE SubSeq(d, 1, CHOOSE n \in 1..Len(d) : d[n] # "0" /\ \A k \in (n + 1)..Len(d) : d[k] = "0")

\* Natural numbers of any size, for the exact arithmetic of float() and of
\* repr(): a sequence of limbs in base 1000, the least significant first,
\* without a leading zero limb; zero is <<>>.
big_trim(a0) ==
    The({IF \A i \in 1..Len(a) : a[i] = 0 THEN <<>>
         ELSE SubSeq(a, 1, CHOOSE n \in 1..Len(a) :
                               a[n] # 0 /\ \A k \in (n + 1)..Len(a) : a[k] = 0)
         : a \in {a0}})

\* Every limb keeps its three low digits and takes what the limb below
\* carries out.
carry_pass(a0) ==
    The({SubSeq([i \in 1..(Len(a) + 1) |-> (IF i <= Len(a) THEN a[i] % 1000 ELSE 0)
                                           + (IF i > 1 THEN a[i - 1] \div 1000 ELSE 0)],
                1, Len(a) + 1)
         : a \in {a0}})
\* With limbs below 1999: a carry enters limb i when a limb below it
\* overflows and every limb between the two is 999.
carry_in(a, i) == \E j \in 1..(i - 1) : a[j] >= 1000 /\ \A k \in (j + 1)..(i - 1) : a[k] = 999
ripple(a0) ==
    The({SubSeq([i \in 1..(Len(a) + 1) |-> ((IF i <= Len(a) THEN a[i] ELSE 0)
                                            + (IF carry_in(a, i) THEN 1 ELSE 0)) % 1000],
                1, Len(a) + 1)
         : a \in {a0}})
\* The number whose limbs, not yet below 1000, are a; four limbs longer
big_carry(a0) == ripple(carry_pass(carry_pass(carry_pass(a0))))
big_norm(a0) == big_trim(big_carry(a0))

big_add(a0, b0) ==
    The({big_norm([i \in 1..Max(Len(a), Len(b)) |-> (IF i <= Len(a) THEN a[i] ELSE 0)
                                                    + (IF i <= Len(b) THEN b[i] ELSE 0)])
         : a \in {a0}, b \in {b0}})
\* a - b for b <= a, as a + (1000^n - 1 - b) + 1 - 1000^n
big_sub(a0, b0) ==
    The({big_trim(SubSeq(big_carry([i \in 1..Len(a) |->
                                       a[i] + 999 - (IF i <= Len(b) THEN b[i] ELSE 0)
                                       + (IF i = 1 THEN 1 ELSE 0)]),
                         1, Len(a)))
         : a \in {a0}, b \in {b0}})
big_less(a0, b0) ==
    The({IF Len(a) # Len(b) THEN Len(a) < Len(b)
         ELSE \E i \in 1..Len(a) : a[i] < b[i] /\ \A k \in (i + 1)..Len(a) : a[k] = b[k]
         : a \in {a0}, b \in {b0}})
\* a * d for 0 <= d <= 1000
big_scale(a0, d0) == The({big_norm([i \in 1..Len(a) |-> a[i] * d]) : a \in {a0}, d \in {d0}})

\* The sum of a[i] * b[k + 1 - i] for i in lo..hi: limb k of the product
RECURSIVE conv(_, _, _, _, _)
conv(a, b, k, lo0, hi0) ==
    The({IF lo > hi THEN 0
         ELSE IF lo = hi THEN a[lo] * b[k + 1 - lo]
         ELSE conv(a, b, k, lo, (lo + hi) \div 2) + conv(a, b, k, (lo + hi) \div 2 + 1, hi)
         : lo \in {lo0}, hi \in {hi0}})
big_mul(a0, b0) ==
    The({IF a = <<>> \/ b = <<>> THEN <<>>
         ELSE big_norm([k \in 1..(Len(a) + Len(b) - 1) |->
                           conv(a, b, k, Max(1, k + 1 - Len(b)), Min(Len(a), k))])
         : a \in {a0}, b \in {b0}})
big_sq(a0) == The({big_mul(a, a) : a \in {a0}})
RECURSIVE big_pow(_, _)
big_pow(a0, k0) ==
    The({IF k = 0 THEN <<1>>
         ELSE IF k % 2 = 0 THEN big_sq(big_pow(a, k \div 2))
         ELSE big_mul(a, big_sq(big_pow(a, k \div 2)))
         : a \in {a0}, k \in {k0}})
pow2(k) == big_pow(<<2>>, k)
pow10(k) == big_pow(<<10>>, k)

\* Long division.  limb(a, i) is limb i of a, 0 outside; quotient_limb is
\* floor(r / v) for r < 1000 * v, found between the bounds the three
\* leading limbs of r and the two leading limbs of v give.
limb(a, i) == IF i >= 1 /\ i <= Len(a) THEN a[i] ELSE 0
lead3(r, n) == limb(r, n + 1) * 1000000 + limb(r, n) * 1000 + limb(r, n - 1)
lead2(v, n) == limb(v, n) * 1000 + limb(v, n - 1)
limb_between(r, v, lo0, hi0) ==
    The({CHOOSE d \in lo..hi : ~big_less(r, big_scale(v, d))
                               /\ (d = hi \/ big_less(r, big_scale(v, d + 1)))
         : lo \in {lo0}, hi \in {hi0}})
quotient_limb(r0, v0) ==
    The({limb_between(r, v, lead3(r, Len(v)) \div (lead2(v, Len(v)) + 1),
                      Min(999, (lead3(r, Len(v)) + 1) \div lead2(v, Len(v))))
         : r \in {r0}, v \in {v0}})
RECURSIVE div_steps(_, _, _, _, _)
div_limb(u, v, i, q, r0) ==
    The({div_steps(u, v, i - 1, <<d>> \o q, big_sub(r, big_scale(v, d)))
         : d \in {quotient_limb(r0, v)}, r \in {r0}})
div_steps(u0, v0, i0, q0, r0) ==
    The({IF i = 0 THEN [q |-> big_trim(q), r |-> r]
         ELSE div_limb(u, v, i, q, big_trim(<<u[i]>> \o r))
         : u \in {u0}, v \in {v0}, i \in {i0}, q \in {q0}, r \in {r0}})
\* floor(u / v) and u mod v, for v > 0
div_from(u, v, n) == div_steps(u, v, Len(u) - n, <<>>, SubSeq(u, Len(u) - n + 1, Len(u)))
big_divmod(u0, v0) ==
    The({div_from(u, v, Min(Len(u), Len(v) - 1)) : u \in {u0}, v \in {v0}})

\* The number of decimal digits, and of binary digits (up to 80)
ndigits(a0) ==
    The({IF a = <<>> THEN 0
         ELSE 3 * (Len(a) - 1)
              + (IF a[Len(a)] >= 100 THEN 3 ELSE IF a[Len(a)] >= 10 THEN 2 ELSE 1)
         : a \in {a0}})
bit_length(a0) ==
    The({CHOOSE n \in 0..80 : big_less(a, pow2(n)) /\ (n = 0 \/ ~big_less(a, pow2(n - 1)))
         : a \in {a0}})

\* int(d) of decimal digits, and str(a) without its leading zeros
digit_at(d, p) == IF p >= 1 THEN HexVal(d[p]) ELSE 0
from_digits(d0) ==
    The({big_trim([i \in 1..((Len(d) + 2) \div 3) |->
                      digit_at(d, Len(d) - 3 * (i - 1))
                      + 10 * digit_at(d, Len(d) - 3 * (i - 1) - 1)
                      + 100 * digit_at(d, Len(d) - 3 * (i - 1) - 2)])
         : d \in {d0}})
\* The decimal digit of a at the place 10^e
digit_of(a, e) ==
    Digits[(IF e % 3 = 0 THEN a[e \div 3 + 1] % 10
            ELSE IF e % 3 = 1 THEN (a[e \div 3 + 1] \div 10) % 10
            ELSE a[e \div 3 + 1] \div 100) + 1]
to_digits(a0) ==
    The({lstrip0([p \in 1..(3 * Len(a)) |-> digit_of(a, 3 * Len(a) - p)]) : a \in {a0}})

\* A double is m * 2^k with m < 2^53, and k = -1074 when m < 2^52.
\* nearest_double: the double nearest to num / den (ties to the even m),
\* with k beyond 971 when the value overflows.  The quotient at the
\* estimated exponent has between 54 and 63 bits; its length gives k.
binary_estimate(num, den) == ((ndigits(num) - ndigits(den) - 1) * 33219) \div 10000 - 54
quotient_at(num, den, k) ==
    big_divmod(big_mul(num, pow2(Max(-k, 0))), big_mul(den, pow2(Max(k, 0))))
round_half_even(q, r0, d) ==
    The({IF big_less(d, twice) \/ (twice = d /\ limb(q, 1) % 2 = 1)
         THEN big_add(q, <<1>>)
         ELSE q
         : twice \in {big_add(r0, r0)}})
renormalised(m0, k) ==
    The({IF m = pow2(53) THEN [m |-> pow2(52), k |-> k + 1] ELSE [m |-> m, k |-> k]
         : m \in {m0}})
rounded_quotient(qr0, d0, k) ==
    The({renormalised(round_half_even(qr.q, qr.r, d), k) : qr \in {qr0}, d \in {d0}})
double_at(num, den, k0) ==
    The({rounded_quotient(quotient_at(num, den, k), big_mul(den, pow2(Max(k, 0))), k)
         : k \in {k0}})
exponent_from(k0, q0) == Max(k0 + bit_length(q0) - 53, -1074)
double_from(num, den, k0) ==
    The({double_at(num, den, exponent_from(k, quotient_at(num, den, k).q)) : k \in {k0}})
nearest_double(num0, den0) ==
    The({double_from(num, den, binary_estimate(num, den)) : num \in {num0}, den \in {den0}})

\* float.__repr__: the shortest decimal that float() takes back to the
\* double m * 2^k, the nearest to it if there are several.  The double and
\* the two ends of the interval of the numbers that round to it are
\* counted in units of 2^(k - 2) and brought to integers of 18 digits,
\* v = [q, r] being the double, lo and hi the least and the greatest integer
\* of the interval.
at_boundary(m, k) == m = pow2(52) /\ k > -1074
interval_low(m, k) == big_sub(big_scale(m, 4), IF at_boundary(m, k) THEN <<1>> ELSE <<2>>)
interval_high(m) == big_add(big_scale(m, 4), <<2>>)
ends_included(m) == limb(m, 1) % 2 = 0
least_integer(qr0, included) ==
    The({IF included /\ qr.r = <<>> THEN qr.q ELSE big_add(qr.q, <<1>>) : qr \in {qr0}})
greatest_integer(qr0, included) ==
    The({IF ~included /\ qr.r = <<>> THEN big_sub(qr.q, <<1>>) ELSE qr.q : qr \in {qr0}})
within(c0, lo, hi) == The({~big_less(c, lo) /\ ~big_less(hi, c) : c \in {c0}})
\* The integers of n significant digits next to v, below and above
below(vd, n) == from_digits(SubSeq(vd, 1, n) \o Rep("0", 18 - n))
above(vd, n) == big_add(below(vd, n), pow10(18 - n))
digits_suffice(vd, n, lo, hi) == within(below(vd, n), lo, hi) \/ within(above(vd, n), lo, hi)
shortest_length(vd, lo, hi) ==
    IF \E n \in 1..17 : digits_suffice(vd, n, lo, hi)
    THEN CHOOSE n \in 1..17 : /\ digits_suffice(vd, n, lo, hi)
                              /\ \A j \in 1..(n - 1) : ~digits_suffice(vd, j, lo, hi)
    ELSE 18
nearer(v, vd, n, lower, upper, middle0) ==
    The({IF big_less(v.q, middle) THEN lower
         ELSE IF v.q = middle /\ v.r = <<>> /\ HexVal(vd[n]) % 2 = 0 THEN lower
         ELSE upper
         : middle \in {middle0}})
nearest_of(v, vd, n, lo, hi, lower0, upper0) ==
    The({IF ~within(upper, lo, hi) THEN lower
         ELSE IF ~within(lower, lo, hi) THEN upper
         ELSE nearer(v, vd, n, lower, upper, big_add(lower, big_scale(pow10(17 - n), 5)))
         : lower \in {lower0}, upper \in {upper0}})
shortest_of(v, vd, n0, lo, hi) ==
    The({IF n = 18 THEN v.q ELSE nearest_of(v, vd, n, lo, hi, below(vd, n), above(vd, n))
         : n \in {n0}})
decimal_of(neg, cd0, pt) == The({Float(neg, rstrip0(cd), pt + Len(cd) - 18) : cd \in {cd0}})
shortest_digits(neg, v, vd0, lo, hi, pt) ==
    The({decimal_of(neg, to_digits(shortest_of(v, vd, shortest_length(vd, lo, hi), lo, hi)), pt)
         : vd \in {vd0}})
shortest_in(neg, v0, lo0, hi0, pt) ==
    The({shortest_digits(neg, v, to_digits(v.q), lo, hi, pt)
         : v \in {v0}, lo \in {lo0}, hi \in {hi0}})
\* a units of 2^(k - 2), times 10^(18 - pt): the factors above and below
factor_above(k, pt) == big_mul(pow2(Max(k - 2, 0)), pow10(Max(18 - pt, 0)))
factor_below(k, pt) == big_mul(pow2(Max(2 - k, 0)), pow10(Max(pt - 18, 0)))
scaled(a, f, g) == big_divmod(big_mul(a, f), g)
shortest_scaled(neg, m, k, pt, f0, g0) ==
    The({shortest_in(neg, scaled(big_scale(m, 4), f, g),
                     least_integer(scaled(interval_low(m, k), f, g), ends_included(m)),
                     greatest_integer(scaled(interval_high(m), f, g), ends_included(m)), pt)
         : f \in {f0}, g \in {g0}})
shortest_at(neg, m, k, pt0) ==
    The({shortest_scaled(neg, m, k, pt, factor_above(k, pt), factor_below(k, pt))
         : pt \in {pt0}})
decimal_estimate(m, k) == ndigits(big_scale(m, 4)) + ((k - 2) * 30103) \div 100000
point_from(m, k, p0) ==
    The({p + ndigits(scaled(big_scale(m, 4), factor_above(k, p), factor_below(k, p)).q) - 18
         : p \in {p0}})
float_repr_digits(neg, m0, k0) ==
    The({shortest_at(neg, m, k, point_from(m, k, decimal_estimate(m, k)))
         : m \in {m0}, k \in {k0}})

\* The float that is the double d
float_value(neg, d0) ==
    The({IF d.m = <<>> THEN Float(neg, <<>>, 0)
         ELSE IF d.k > 971 THEN Inf(neg)
         ELSE float_repr_digits(neg, d.m, d.k)
         : d \in {d0}})

\* The position of the decimal point is a + e or a - e, for an int a and an
\* exponent e of any size; it matters between -323 and 309 only.  nat(n) is
\* n >= 0 in limbs, clip(b) is min(b, 1000), and clipped_sum is a + e or
\* a - e brought into -1000..1000.
nat(n) ==
    big_trim(<<n % 1000, (n \div 1000) % 1000, (n \div 1000000) % 1000, n \div 1000000000>>)
clip(b0) == The({IF Len(b) > 1 THEN 1000 ELSE limb(b, 1) : b \in {b0}})
clipped_difference(a0, b0) ==
    The({IF big_less(a, b) THEN -clip(big_sub(b, a)) ELSE clip(big_sub(a, b))
         : a \in {a0}, b \in {b0}})
clipped_sum(a, e_neg, e) ==
    IF a >= 0 /\ ~e_neg THEN clip(big_add(nat(a), e))
    ELSE IF a >= 0 THEN clipped_difference(nat(a), e)
    ELSE IF ~e_neg THEN clipped_difference(e, nat(-a))
    ELSE -clip(big_add(nat(-a), e))

\* float(integer + '.' + frac + 'e' + exp): the double nearest to the
\* decimal 0.sig * 10^pt.  At or beyond 10^309 it is inf, below 10^-324 zero.
float_from(neg, sig0, pt0) ==
    The({IF sig = <<>> THEN Float(neg, <<>>, 0)
         ELSE IF pt > 309 THEN Inf(neg)
         ELSE IF pt < -323 THEN Float(neg, <<>>, 0)
         ELSE float_value(neg, nearest_double(
                  big_mul(from_digits(sig), pow10(Max(pt - Len(sig), 0))),
                  pow10(Max(Len(sig) - pt, 0))))
         : sig \in {sig0}, pt \in {pt0}})
significant(neg, integer, all0, exp_neg, exp) ==
    The({float_from(neg, rstrip0(lstrip0(all)),
                    clipped_sum(Len(integer) - (Len(all) - Len(lstrip0(all))),
                                exp_neg, from_digits(exp)))
         : all \in {all0}})
\* exp_neg and exp are the sign and the digits of the exponent, <<>> without
float_of(neg, integer, frac, exp_neg, exp) ==
    significant(neg, integer, integer \o frac, exp_neg, exp)

\* json.scanner.NUMBER_RE, (-?(?:0|[1-9]\d*))(\.\d+)?([eE][-+]?\d+)?, matched at i:
\* the integer part is s[a..b-1], the fraction ends before f, the exponent's
\* digits are s[g..h-1] (h = f when there is no exponent).
frac_end(s, b, d) == IF At(s, b, ".") /\ d > b + 1 THEN d ELSE b
exp_start(s, f) ==
    IF f <= Len(s) /\ s[f] \in {"e", "E"}
    THEN (IF f + 1 <= Len(s) /\ s[f + 1] \in {"+", "-"} THEN f + 2 ELSE f + 1)
    ELSE f
exp_end(f, g, d) == IF g > f /\ d > g THEN d ELSE f
number_value(s, i, a, b, f, g, h) ==
    IF b = a THEN Fail
    ELSE IF f = b /\ h = f
         THEN (IF b - a > max_str_digits THEN Fail       \* int(): ValueError
               ELSE Ok(IntV(a > i, SubSeq(s, a, b - 1)), b))
    ELSE Ok(float_of(a > i, SubSeq(s, a, b - 1),
                     IF f > b THEN SubSeq(s, b + 1, f - 1) ELSE <<>>,
                     h > f /\ s[g - 1] = "-",
                     IF h > f THEN SubSeq(s, g, h - 1) ELSE <<>>),
            h)
number_exp(s, i, a, b, f, g) == number_value(s, i, a, b, f, g, exp_end(f, g, digits_end(s, g)))
number_frac(s, i, a, b, f) == number_exp(s, i, a, b, f, exp_start(s, f))
number_int(s, i, a, b) == number_frac(s, i, a, b, frac_end(s, b, digits_end(s, b + 1)))
number_sign(s, i, a) == number_int(s, i, a, IF At(s, a, "0") THEN a + 1 ELSE digits_end(s, a))
scan_number(s, i) == number_sign(s, i, IF At(s, i, "-") THEN i + 1 ELSE i)

\* json.scanner.scan_once(s, i); JSONArray and JSONObject with i after the
\* opening bracket.  d is the number of arrays and objects that may still be
\* opened inside one another.  A repeated key keeps its first position and
\* its last value, as dict(pairs) does.
RECURSIVE scan_once(_, _, _)
RECURSIVE JSONArray(_, _, _, _)
RECURSIVE JSONObject(_, _, _, _)

\* scan_once: a string, given what scanstring returned
string_value(r) == IF r.ok THEN Ok(Text(r.v), r.i) ELSE Fail
\* scan_once: a number (m is the match of NUMBER_RE) or NaN, Infinity, -Infinity
number_or_constant(s, i, m) ==
    IF m.ok THEN m
    ELSE IF StartsWith(s, i, <<"N", "a", "N">>) THEN Ok(NaN, i + 3)
    ELSE IF StartsWith(s, i, <<"I", "n", "f", "i", "n", "i", "t", "y">>) THEN Ok(Inf(FALSE), i + 8)
    ELSE IF StartsWith(s, i, <<"-", "I", "n", "f", "i", "n", "i", "t", "y">>)
         THEN Ok(Inf(TRUE), i + 9)
    ELSE Fail
\* JSONArray: j is the index after the element r and the whitespace behind it
array_sep(s, acc, j, d) ==
    IF At(s, j, "]") THEN Ok(ListV(acc), j + 1)
    ELSE IF At(s, j, ",") THEN JSONArray(s, skip_ws(s, j + 1), acc, d)
    ELSE Fail
array_element(s, acc, r, d) ==
    IF ~r.ok THEN Fail ELSE array_sep(s, Append(acc, r.v), skip_ws(s, r.i), d)
\* JSONObject: the key, the colon at j, the value r, the separator at k
object_sep(s, acc, k, d) ==
    IF At(s, k, "}") THEN Ok(MapV(acc), k + 1)
    ELSE IF At(s, k, ",") THEN JSONObject(s, skip_ws(s, k + 1), acc, d)
    ELSE Fail
object_value(s, acc, key, r, d) ==
    IF ~r.ok THEN Fail ELSE object_sep(s, Put(acc, key.v, r.v), skip_ws(s, r.i), d)
object_colon(s, acc, key, j, d) ==
    IF ~At(s, j, ":") THEN Fail
    ELSE object_value(s, acc, key, scan_once(s, skip_ws(s, j + 1), d), d)
object_key(s, acc, key, d) ==
    IF ~key.ok THEN Fail ELSE object_colon(s, acc, key, skip_ws(s, key.i), d)
\* scan_once: an object or an array opened at s[i], j the index after the
\* bracket and the whitespace behind it, d what may be opened inside it
scan_object(s, j, d) ==
    IF At(s, j, "}") THEN Ok(MapV(<<>>), j + 1) ELSE JSONObject(s, j, <<>>, d)
scan_array(s, j, d) ==
    IF At(s, j, "]") THEN Ok(ListV(<<>>), j + 1) ELSE JSONArray(s, j, <<>>, d)

scan_once(s, i, d) ==
    IF i > Len(s) THEN Fail
    ELSE IF s[i] = "\"" THEN string_value(scanstring(s, i + 1, <<>>))
    ELSE IF s[i] \in {"{", "["} /\ d = 0 THEN Fail        \* RecursionError
    ELSE IF s[i] = "{"
         THEN The({scan_object(s, j, e) : j \in {skip_ws(s, i + 1)}, e \in {d - 1}})
    ELSE IF s[i] = "["
         THEN The({scan_array(s, j, e) : j \in {skip_ws(s, i + 1)}, e \in {d - 1}})
    ELSE IF StartsWith(s, i, <<"n", "u", "l", "l">>) THEN Ok(Null, i + 4)
    ELSE IF StartsWith(s, i, <<"t", "r", "u", "e">>) THEN Ok(Bool(TRUE), i + 4)
    ELSE IF StartsWith(s, i, <<"f", "a", "l", "s", "e">>) THEN Ok(Bool(FALSE), i + 5)
    ELSE number_or_constant(s, i, scan_number(s, i))
JSONArray(s, i, acc, d) == array_element(s, acc, scan_once(s, i, d), d)
JSONObject(s, i, acc, d) ==
    IF ~At(s, i, "\"") THEN Fail ELSE object_key(s, acc, scanstring(s, i + 1, <<>>), d)

\* json.loads(text) called with the given number of frames on the stack: the
\* value, or an exception (ok = FALSE).
loads_end(text, r) ==
    IF r.ok /\ skip_ws(text, r.i) = Len(text) + 1
    THEN [ok |-> TRUE, v |-> r.v]
    ELSE [ok |-> FALSE, v |-> NaN]
loads_at(text, frames) ==
    loads_end(text, scan_once(text, skip_ws(text, 1), nesting_limit(frames)))
\* json.loads(out) in gather_resources and gather_asset_resources
loads(text) == loads_at(text, gather_frames)

\* needle in hay
Contains(hay, needle) ==
    \E i \in 1..(Len(hay) - Len(needle) + 1) :
        SubSeq(hay, i, i + Len(needle) - 1) = needle

\* b'[]\xff\n' is not UTF-8, and b'[]\r\n' is read as '[]\n'.
not_utf8 == <<91, 93, 255, 10>>
empty_list_crlf == <<91, 93, 13, 10>>

\* A command that fails, with a message on stderr
Failure == Exit(FALSE, <<>>, Bytes(garbage))
\* A command that exits 0 having printed the text o
Printed(o) == Exit(TRUE, Bytes(o), <<>>)

\* What a listing command may do: fail, or print nothing, text that is not
\* JSON, an empty list, a list of records, a JSON object, or bytes that are
\* not text.
ListingResults ==
    {Failure, Exit(FALSE, <<>>, not_utf8), Exit(TRUE, not_utf8, <<>>),
     Exit(TRUE, empty_list_crlf, <<>>)} \cup
    {Printed(o) : o \in {<<>>, garbage, empty_list_line, listing_indented,
                         dumps(ErrorObject)}}

\* What `gcloud services list` may do.
ServiceResults ==
    {Failure, Exit(TRUE, not_utf8, <<>>), Exit(TRUE, empty_list_crlf, <<>>)} \cup
    {Printed(o) : o \in {<<>>, garbage, warning_container, dumps(ErrorObject),
                         empty_list_line, dumps(MapV(<<>>)), dumps(Null),
                         dumps(ListV(<<ServiceOther>>)),
                         dumps(ListV(<<ServiceByPath>>)),
                         dumps(ListV(<<ServiceOther, ServiceByName>>)),
                         dumps(ListV(<<ServiceByServiceName>>)),
                         dumps(ListV(<<ServiceOther, ServiceByConfig>>)),
                         dumps(ListV(<<ServiceByPathAndConfig>>)),
                         dumps(ListV(<<Text(container_api)>>)),
                         dumps(ListV(<<ServiceByName, Text(x)>>))}}

\* is_service_enabled, the test inside its for loop
ServiceMatches(sv, service_name) ==
    \/ Get(sv.m, k_name) = Text(service_name)
    \/ Get(sv.m, k_serviceName) = Text(service_name)
    \/ LET cfg == Get(sv.m, k_config) IN
       cfg.t = "map" /\ Get(cfg.m, k_name) = Text(service_name)

\* is_service_enabled: `for s in services`, from element i on: "true" or
\* "false" as returned, "raised" when an element has no .get
RECURSIVE service_loop(_, _, _)
service_loop(l, i, service_name) ==
    IF i > Len(l) THEN "false"
    ELSE IF l[i].t # "map" THEN "raised"
    ELSE IF ServiceMatches(l[i], service_name) THEN "true"
    ELSE service_loop(l, i + 1, service_name)

\* is_service_enabled: the try block, given the parsed document.  Iterating
\* a dict or a str yields str elements (no .get); an int, float, bool or
\* None is not iterable.
services_try(d, service_name) ==
    IF d.t = "list" THEN service_loop(d.l, 1, service_name)
    ELSE IF d.t = "map" THEN (IF d.m = <<>> THEN "false" ELSE "raised")
    ELSE IF d.t = "text" THEN (IF d.s = <<>> THEN "false" ELSE "raised")
    ELSE "raised"

\* is_service_enabled, given what run_cmd returned for `gcloud services list`:
\* r is how the try block ended, on "raised" the except clause checks for
\* the substring
services_parsed(d, service_name) ==
    IF d.ok THEN services_try(d.v, service_name) ELSE "raised"
services_answer(out_text, service_name, r) ==
    IF r = "raised" THEN Contains(out_text, service_name) ELSE r = "true"
is_service_enabled(o, service_name) ==
    IF ~Truthy(o) THEN FALSE
    ELSE services_answer(o.v, service_name,
                         services_parsed(loads_at(o.v, service_frames), service_name))

\* gather_resources: what is stored for a kind, given what run_cmd returned
parsed_or_empty(d) == IF d.ok THEN d.v ELSE ListV(<<>>)
StoreListing(o) == IF Truthy(o) THEN parsed_or_empty(loads(o.v)) ELSE ListV(<<>>)

Call(c, p) == [cmd |-> c, project |-> p]
Note(msg, c, k) == [msg |-> msg, cmd |-> c, key |-> k]
CommandFailed(c, p) == Note("Command failed", c, p)

\* run_cmd's report on stderr, if it caught CalledProcessError and returned
\* None
Noted(o, c, p) == IF o.value.some THEN notes ELSE Append(notes, CommandFailed(c, p))

---------------------------------------------------------------------------
(* The script, src/inventory.py.                                           *)

\* s.split(sep)
RECURSIVE split(_, _)
split(s, sep) ==
    IF \E i \in 1..Len(s) : s[i] = sep
    THEN LET i == CHOOSE i \in 1..Len(s) : s[i] = sep /\ \A j \in 1..(i - 1) : s[j] # sep
         IN  <<SubSeq(s, 1, i - 1)>> \o split(SubSeq(s, i + 1, Len(s)), sep)
    ELSE <<s>>

\* main: projects = [p.strip() for p in project.split(',') if p.strip()]
parse_projects(project) ==
    LET pieces == split(project, ",")
    IN  SelectSeq([i \in 1..Len(pieces) |-> strip(pieces[i])], LAMBDA q : q # <<>>)

\* main: f"{p}::{k}"
combined_key(p, k) == p \o <<":", ":">> \o k

\* The project being collected.
Project == projects[pidx]

\* main: project = args.project or os.environ.get('GOOGLE_CLOUD_PROJECT')
resolve_project(a) == IF Truthy(a.project) THEN a.project ELSE a.env

\* main: parse the arguments, resolve the project list.
ScriptMain ==
    /\ impl = "script" /\ pc = "main"
    /\ IF ~Truthy(resolve_project(argv))
       THEN /\ notes' = Append(notes, Note("Project not provided", "", <<>>))
            /\ status' = "exit2"
            /\ pc' = "done"
            /\ UNCHANGED <<projects, pidx>>
       ELSE /\ projects' = parse_projects(resolve_project(argv).v)
            /\ pidx' = 1
            /\ pc' = "project"
            /\ UNCHANGED <<notes, status>>
    /\ UNCHANGED <<impl, used_names, sanVars, flatVars, argv, combined, resources,
                   assets, out, enabled, issued, sheets, eidx, file, ok>>

\* main: the head of `for p in projects`, and after the loop the choice of
\* the output name (`args.output or ...`: projects[0] is read when --output
\* is not given or is empty) and the opening of the ExcelWriter.
ScriptNextProject ==
    /\ impl = "script" /\ pc = "project"
    /\ IF pidx <= Len(projects)
       THEN /\ pc' = IF argv.use_asset THEN "asset" ELSE "compute"
            /\ UNCHANGED <<status, used_names, eidx, file>>
       ELSE IF ~Truthy(argv.output) /\ projects = <<>>
            THEN /\ status' = "raised"      \* IndexError: projects[0]
                 /\ pc' = "done"
                 /\ UNCHANGED <<used_names, eidx, file>>
            ELSE /\ pc' = "export"
                 /\ used_names' = {}
                 /\ eidx' = 1
                 /\ file' = "invalid"       \* opened, nothing saved yet
                 /\ UNCHANGED status
    /\ UNCHANGED <<impl, sanVars, flatVars, argv, projects, pidx, combined, resources,
                   assets, out, enabled, issued, notes, sheets, ok>>

\* gather_resources: one listing command and the assignment that follows it.
\* An exception of run_cmd leaves gather_resources and main.
ListKind(at, c, kind, next) ==
    /\ impl = "script" /\ pc = at
    /\ \E r \in ListingResults : \E o \in {run_cmd(r)} :
        /\ issued' = Append(issued, Call(c, Project))
        /\ IF o.raised
           THEN /\ status' = "raised"
                /\ pc' = "done"
                /\ UNCHANGED <<out, notes, resources>>
           ELSE /\ out' = o.value
                /\ notes' = Noted(o, c, Project)
                /\ resources' = Put(resources, kind, StoreListing(o.value))
                /\ pc' = next
                /\ UNCHANGED status
    /\ UNCHANGED <<impl, used_names, sanVars, flatVars, argv, projects, pidx,
                   combined, assets, enabled, sheets, eidx, file, ok>>

ListCompute == ListKind("compute", "compute instances list", compute_instances, "services")

\* gather_resources: is_service_enabled(project, 'container.googleapis.com')
CheckService ==
    /\ impl = "script" /\ pc = "services"
    /\ \E r \in ServiceResults : \E o \in {run_cmd(r)} :
        /\ issued' = Append(issued, Call("services list", Project))
        /\ IF o.raised
           THEN /\ status' = "raised"
                /\ pc' = "done"
                /\ UNCHANGED <<notes, enabled>>
           ELSE /\ notes' = Noted(o, "services list", Project)
                /\ enabled' = IF is_service_enabled(o.value, container_api)
                              THEN "true" ELSE "false"
                /\ pc' = "gke"
                /\ UNCHANGED status
    /\ UNCHANGED <<impl, used_names, sanVars, flatVars, argv, projects, pidx,
                   combined, resources, assets, out, sheets, eidx, file, ok>>

ListGke ==
    /\ enabled = "true"
    /\ ListKind("gke", "container clusters list", gke_clusters, "functions")

\* gather_resources: the else branch of the capability check
SkipGke ==
    /\ impl = "script" /\ pc = "gke" /\ enabled = "false"
    /\ resources' = Put(resources, gke_clusters, ListV(<<>>))
    /\ notes' = Append(notes, Note("Kubernetes Engine API not enabled; skipping GKE cluster listing",
                                   "", Project))
    /\ pc' = "functions"
    /\ UNCHANGED <<impl, used_names, sanVars, flatVars, status, argv, projects, pidx,
                   combined, assets, out, enabled, issued, sheets, eidx, file, ok>>

ListFunctions == ListKind("functions", "functions list", cloud_functions, "sql")
ListSql == ListKind("sql", "sql instances list", sql_instances, "storage")
ListStorage == ListKind("storage", "storage buckets list", storage_buckets, "return")

\* main: for k, v in res.items(): combined[f"{p}::{k}"] = v
RECURSIVE Merge(_, _, _)
Merge(comb, p, res) ==
    IF res = <<>> THEN comb
    ELSE Merge(Put(comb, combined_key(p, res[1][1]), res[1][2]), p, Tail(res))

\* gather_resources returns; main files the result under the project's keys.
ReturnResources ==
    /\ impl = "script" /\ pc = "return"
    /\ combined' = Merge(combined, Project, resources)
    /\ pidx' = pidx + 1
    /\ resources' = <<>>
    /\ out' = None
    /\ enabled' = "unset"
    /\ pc' = "project"
    /\ UNCHANGED <<impl, used_names, sanVars, flatVars, status, argv, projects, assets,
                   issued, notes, sheets, eidx, file, ok>>

MaxAssets == 2   \* records a broad search returns

AssetRecords == {RecFlat, RecNested}
AssetLists == UNION {[1..n -> AssetRecords] : n \in 0..MaxAssets}

\* What `gcloud asset search-all-resources` may do.
AssetCliResults ==
    {Failure, Exit(FALSE, <<>>, not_utf8), Exit(TRUE, not_utf8, <<>>)} \cup
    {Printed(o) : o \in {<<>>, garbage, empty_list_line, listing_indented,
                         dumps(ListV(<<RecFlat, RecNested>>))}}

\* main: combined[f"{p}::asset_resources"] = assets, and on to the next project
FileAssets(v) ==
    /\ assets' = v
    /\ combined' = Put(combined, combined_key(Project, asset_resources), v)
    /\ pidx' = pidx + 1
    /\ pc' = "project"

\* gather_asset_resources(p).  Without the client library the gcloud CLI is
\* used: a failed command or output that is not JSON yields [], an exception
\* of run_cmd propagates.  With it, the client is built outside the try (a
\* failure there propagates) and an error of the search itself is printed,
\* what was collected so far being returned.
ScriptAsset ==
    /\ impl = "script" /\ pc = "asset"
    /\ \/ \E r \in AssetCliResults : \E o \in {run_cmd(r)} :
            /\ issued' = Append(issued, Call("asset search-all-resources", Project))
            /\ IF o.raised
               THEN /\ status' = "raised"
                    /\ pc' = "done"
                    /\ UNCHANGED <<assets, combined, pidx, notes>>
               ELSE /\ notes' = Noted(o, "asset search-all-resources", Project)
                    /\ FileAssets(StoreListing(o.value))
                    /\ UNCHANGED status
       \/ /\ status' = "raised"             \* AssetServiceClient() raised
          /\ pc' = "done"
          /\ UNCHANGED <<assets, combined, pidx, issued, notes>>
       \/ \E recs \in AssetLists, failed \in BOOLEAN :
            /\ issued' = Append(issued, Call("search_all_resources", Project))
            /\ notes' = IF failed
                        THEN Append(notes, Note("Cloud Asset client error",
                                                "search_all_resources", Project))
                        ELSE notes
            /\ FileAssets(ListV(recs))
            /\ UNCHANGED status
    /\ UNCHANGED <<impl, used_names, sanVars, flatVars, argv, projects, resources, out,
                   enabled, sheets, eidx, file, ok>>

\* What building a table gives: the table, or an exception.
Built(frame) == [raised |-> FALSE, df |-> frame]
Raised == [raised |-> TRUE, df |-> NoFrame]

\* The label of the positional column i - 1
column(i) == IntStr(i - 1)

\* A table given by its columns and its cells, cells[r][i] for row r and
\* the i-th column.
Table(cols, cells) ==
    [made |-> TRUE, columns |-> cols,
     rows |-> [r \in 1..Len(cells) |-> [c \in Range(cols) |->
                 cells[r][CHOOSE i \in 1..Len(cols) : cols[i] = c]]]]

\* pd.DataFrame(l) for a list whose first element is no dict: a list of
\* scalars is one column labelled 0; a list of lists is one row per list,
\* the short ones padded; other mixtures are rejected.
list_frame(l) ==
    IF l = <<>> THEN Built(DataFrame(<<>>))
    ELSE IF \A i \in 1..Len(l) : l[i].t = "list"
         THEN LET width == CHOOSE w \in {Len(l[i].l) : i \in 1..Len(l)} :
                              \A i \in 1..Len(l) : Len(l[i].l) <= w
              IN  Built(Table([i \in 1..width |-> column(i)],
                              [r \in 1..Len(l) |-> [i \in 1..width |->
                                  IF i <= Len(l[r].l) THEN l[r].l[i] ELSE NaN]]))
    ELSE IF \E i \in 1..Len(l) : l[i].t = "list" THEN Raised
    ELSE Built(Table(<<column(1)>>, [r \in 1..Len(l) |-> <<l[r]>>]))

\* pd.DataFrame(d) for a dict: a dict of scalars only has no index
\* (ValueError); list values give the rows and must agree in length; dict
\* values give the rows by their keys and cannot be mixed with lists;
\* scalars beside them are repeated on every row.
dict_frame(m) ==
    LET lists == {i \in 1..Len(m) : m[i][2].t = "list"}
        dicts == {i \in 1..Len(m) : m[i][2].t = "map"}
        index == UnionColumns([i \in 1..Len(m) |->
                                  IF i \in dicts THEN m[i][2].m ELSE <<>>])
    IN  IF m = <<>> THEN Built(DataFrame(<<>>))
        ELSE IF lists = {} /\ dicts = {} THEN Raised
        ELSE IF lists # {} /\ dicts # {} THEN Raised
        ELSE IF lists # {}
             THEN (IF Cardinality({Len(m[i][2].l) : i \in lists}) > 1 THEN Raised
                   ELSE Built(Table(Keys(m),
                                    [r \in 1..Len(m[CHOOSE i \in lists : TRUE][2].l) |->
                                        [i \in 1..Len(m) |->
                                            IF i \in lists THEN m[i][2].l[r] ELSE m[i][2]]])))
        ELSE Built(Table(Keys(m),
                         [r \in 1..Len(index) |->
                             [i \in 1..Len(m) |->
                                 IF i \in dicts THEN Cell(m[i][2].m, index[r]) ELSE m[i][2]]]))

\* pandas _simple_json_normalize of one element of the list: a dict is
\* flattened, a scalar gives the empty row.
simple_json_normalize(e) == IF e.t = "map" THEN normalise_json_ordered(e.m) ELSE <<>>

\* resources_to_excel: the table for one entry, or the exception raised
\* building it.  json_normalize for a list starting with a dict (a list
\* among its elements has no keys: AttributeError), pd.DataFrame otherwise
\* (None gives the empty table, a scalar is rejected).
script_sheet(its) ==
    IF its.t = "list" /\ Len(its.l) > 0 /\ its.l[1].t = "map"
    THEN (IF \E i \in 1..Len(its.l) : its.l[i].t = "list" THEN Raised
          ELSE Built(DataFrame([i \in 1..Len(its.l) |-> simple_json_normalize(its.l[i])])))
    ELSE IF its.t = "list" THEN list_frame(its.l)
    ELSE IF its.t = "map" THEN dict_frame(its.m)
    ELSE IF its.t = "null" THEN Built(DataFrame(<<>>))
    ELSE Raised

FailedSheet(key) == Note("Failed to write sheet", "", key)

\* df.to_excel(writer, sheet_name=...): the sheet is written, or an
\* exception is raised.  The openpyxl writer creates the worksheet and then
\* writes the cells one by one, so an exception raised before that leaves
\* no sheet ("failed") and one raised on a cell leaves the worksheet with
\* the cells written so far ("partial").
ToExcelOutcomes == {"written", "partial", "failed"}
\* The first cells written are those of the header: a table without columns
\* has no cell to fail on.
to_excel(frame) ==
    IF frame.columns = <<>> THEN ToExcelOutcomes \ {"partial"} ELSE ToExcelOutcomes

\* A sheet of the workbook: its name, the entry it is for, the table handed
\* to to_excel, and whether all of it was written.
Sheet(name, key, frame, outcome) ==
    [name |-> name, key |-> key, df |-> frame, complete |-> outcome = "written"]

\* resources_to_excel: one pass of `for key, items in resources.items()`.
\* Every exception of the pass is caught and printed.
\* The try/except is inside the loop: after a failure at entry i of n the
\* loop goes on with entry i + 1.
AfterFailure(i, n) == i + 1

ExportSheet ==
    /\ impl = "script" /\ pc = "export" /\ eidx <= Len(combined)
    /\ LET key == combined[eidx][1]
           built == script_sheet(combined[eidx][2])
       IN  IF built.raised
           THEN /\ notes' = Append(notes, FailedSheet(key))
                /\ eidx' = AfterFailure(eidx, Len(combined))
                /\ UNCHANGED <<used_names, sheets>>
           ELSE /\ used_names' = used_names \cup {sanitize(key, used_names)}
                /\ \E outcome \in to_excel(built.df) :
                    /\ sheets' = IF outcome = "failed" THEN sheets
                                 ELSE Append(sheets, Sheet(sanitize(key, used_names), key,
                                                           built.df, outcome))
                    /\ notes' = IF outcome = "written" THEN notes
                                ELSE Append(notes, FailedSheet(key))
                    /\ eidx' = IF outcome = "written" THEN eidx + 1
                               ELSE AfterFailure(eidx, Len(combined))
    /\ UNCHANGED <<impl, sanVars, flatVars, pc, status, argv, projects, pidx, combined,
                   resources, assets, out, enabled, issued, file, ok>>

\* resources_to_excel: leaving the `with`: the workbook is saved, with the
\* sheets it has, those cut short included.  The writer starts without any
\* sheet, and a workbook without a sheet cannot be saved (IndexError: At
\* least one sheet must be visible).
ExportClose ==
    /\ impl = "script" /\ pc = "export" /\ eidx > Len(combined)
    /\ IF sheets = <<>>
       THEN /\ status' = "raised"
            /\ pc' = "done"
            /\ UNCHANGED file
       ELSE /\ file' = "workbook"
            /\ pc' = "upload"
            /\ UNCHANGED status
    /\ UNCHANGED <<impl, used_names, sanVars, flatVars, argv, projects, pidx, combined,
                   resources, assets, out, enabled, issued, notes, sheets, eidx, ok>>

\* upload_to_gcs(local_file, bucket): whether an exception leaves it, what
\* it returns, the call it makes and what is printed, given what run_cmd
\* comes to for `gcloud storage cp`.
script_upload_to_gcs(bucket, o) ==
    IF ~Truthy(bucket)
    THEN [raised |-> FALSE, ok |-> FALSE, calls |-> <<>>,
          notes |-> <<Note("No bucket provided, skipping upload.", "", <<>>)>>]
    ELSE [raised |-> o.raised, ok |-> ~o.raised /\ o.value.some,
          calls |-> <<Call("storage cp", bucket.v)>>,
          notes |-> IF o.raised \/ o.value.some THEN <<>>
                    ELSE <<CommandFailed("storage cp", bucket.v)>>]

CpResults ==
    {Failure, Exit(FALSE, <<>>, not_utf8), Exit(TRUE, not_utf8, <<>>), Printed(<<>>),
     Printed(garbage)}

\* main: the upload, made only when --bucket is given; then the run ends.
ScriptUpload ==
    /\ impl = "script" /\ pc = "upload"
    /\ IF Truthy(argv.bucket)
       THEN \E r \in CpResults : \E u \in {script_upload_to_gcs(argv.bucket, run_cmd(r))} :
            /\ issued' = issued \o u.calls
            /\ IF u.raised
               THEN /\ status' = "raised"
                    /\ UNCHANGED <<ok, notes>>
               ELSE /\ ok' = IF u.ok THEN "true" ELSE "false"
                    /\ notes' = notes \o u.notes \o
                                <<Note(IF u.ok THEN "Upload successful" ELSE "Upload failed",
                                       "", <<>>)>>
                    /\ status' = "exit0"
       ELSE /\ status' = "exit0"
            /\ UNCHANGED <<ok, issued, notes>>
    /\ pc' = "done"
    /\ UNCHANGED <<impl, used_names, sanVars, flatVars, argv, projects, pidx, combined,
                   resources, assets, out, enabled, sheets, eidx, file>>

---------------------------------------------------------------------------
(* The package, src/gcp_inventory/inventory.py.                            *)

\* main: argparse requires --project and --bucket; only --use-asset mode is
\* implemented.
PkgMain ==
    /\ impl = "pkg" /\ pc = "main"
    /\ IF ~argv.project.some \/ ~argv.bucket.some
       THEN /\ status' = "exit2"
            /\ pc' = "done"
            /\ UNCHANGED <<projects, pidx, notes>>
       ELSE IF ~argv.use_asset
            THEN /\ notes' = Append(notes, Note("Only --use-asset mode is implemented", "", <<>>))
                 /\ status' = "exit0"
                 /\ pc' = "done"
                 /\ UNCHANGED <<projects, pidx>>
            ELSE /\ projects' = <<argv.project.v>>
                 /\ pidx' = 1
                 /\ pc' = "asset"
                 /\ UNCHANGED <<status, notes>>
    /\ UNCHANGED <<impl, used_names, sanVars, flatVars, argv, combined, resources, assets,
                   out, enabled, issued, sheets, eidx, file, ok>>

\* collect_assets: what happens when the search fails after some records:
\* the error is logged and raised again.
collect_assets_Swallow(recs, failed) == [raised |-> FALSE, resources |-> recs]
collect_assets(recs, failed) == [raised |-> failed, resources |-> recs]

\* collect_assets(project).  The client is built outside the try.
PkgCollect ==
    /\ impl = "pkg" /\ pc = "asset"
    /\ \/ /\ status' = "raised"             \* AssetServiceClient() raised
          /\ pc' = "done"
          /\ UNCHANGED <<assets, issued, notes>>
       \/ \E recs \in AssetLists, failed \in BOOLEAN :
            LET c == collect_assets(recs, failed) IN
            /\ issued' = Append(issued, Call("search_all_resources", Project))
            /\ notes' = IF failed
                        THEN Append(notes, Note("Cloud Asset client error",
                                                "search_all_resources", Project))
                        ELSE notes
            /\ IF c.raised
               THEN /\ status' = "raised"
                    /\ pc' = "done"
                    /\ UNCHANGED assets
               ELSE /\ assets' = ListV(c.resources)
                    /\ pc' = "export"
                    /\ UNCHANGED status
    /\ UNCHANGED <<impl, used_names, sanVars, flatVars, argv, projects, pidx, combined,
                   resources, out, enabled, sheets, eidx, file, ok>>

\* resources_to_excel(resources, out_path): one sheet named by the
\* sanitizer from 'assets'; an exception of to_excel propagates, the writer
\* saving what it has on the way out: nothing valid without a worksheet,
\* the workbook with the sheet cut short otherwise.
PkgExport ==
    /\ impl = "pkg" /\ pc = "export"
    /\ LET frame == pkg_frame([i \in 1..Len(assets.l) |-> assets.l[i].m])
           sheet_name == sanitize_sheet_name(assets_label, {})
       IN  /\ used_names' = {sheet_name}
           /\ \E outcome \in to_excel(frame) :
                /\ sheets' = IF outcome = "failed" THEN sheets
                             ELSE <<Sheet(sheet_name, assets_label, frame, outcome)>>
                /\ IF outcome = "written"
                   THEN /\ file' = "workbook"
                        /\ pc' = "upload"
                        /\ UNCHANGED status
                   ELSE /\ status' = "raised"
                        /\ file' = IF outcome = "partial" THEN "partial" ELSE "invalid"
                        /\ pc' = "done"
    /\ UNCHANGED <<impl, sanVars, flatVars, argv, projects, pidx, combined, resources,
                   assets, out, enabled, issued, notes, eidx, ok>>

\* upload_to_gcs(out_file, bucket): no test of the bucket, no try: whatever
\* the storage client raises propagates.  An empty bucket name is refused
\* before or by the upload call.
PkgUpload ==
    /\ impl = "pkg" /\ pc = "upload"
    /\ \E called \in BOOLEAN, uploaded \in BOOLEAN :
        /\ called \/ ~uploaded
        /\ argv.bucket.v = <<>> => ~uploaded
        /\ issued' = IF called
                     THEN Append(issued, Call("upload_from_filename", argv.bucket.v))
                     ELSE issued
        /\ notes' = IF uploaded THEN Append(notes, Note("Upload successful", "", <<>>))
                    ELSE notes
        /\ status' = IF uploaded THEN "exit0" ELSE "raised"
    /\ pc' = "done"
    /\ UNCHANGED <<impl, used_names, sanVars, flatVars, argv, projects, pidx, combined,
                   resources, assets, out, enabled, sheets, eidx, file, ok>>

---------------------------------------------------------------------------
(* Runs of main().                                                         *)

proj_p == <<"p">>
proj_none == <<",">>
proj_two == <<" ", "p", ",", "q">>
bucket_b == <<"b">>
out_xlsx == <<"o", "u", "t", ".", "x", "l", "s", "x">>

\* The command lines of the model.
Argvs ==
    {a \in [project : {None, Some(<<>>), Some(proj_p), Some(proj_none), Some(proj_two)},
            bucket : {None, Some(<<>>), Some(bucket_b)},
            output : {None, Some(<<>>), Some(out_xlsx)},
            use_asset : BOOLEAN,
            env : {None, Some(<<>>), Some(proj_p)}] :
        /\ a.project = Some(proj_two) => a.use_asset
        /\ a.bucket = Some(<<>>) => a.use_asset
        /\ a.output.some => a.project = Some(proj_none)
        /\ a.project = Some(<<>>) => (a.use_asset /\ a.bucket = None)
        /\ a.env = Some(<<>>) => (~Truthy(a.project) /\ a.use_asset /\ a.bucket = None)
        /\ a.env = Some(proj_p) => (Truthy(a.project) => a.project = Some(proj_none))
        /\ (a.env = Some(proj_p) /\ a.bucket = Some(bucket_b)) => a.use_asset}

Init ==
    /\ impl \in Impls
    /\ IdleSanitize
    /\ IdleFlatten
    /\ argv \in Argvs
    /\ pc = "main" /\ status = "running" /\ projects = <<>> /\ pidx = 0
    /\ combined = <<>> /\ resources = <<>> /\ assets = ListV(<<>>) /\ out = None
    /\ enabled = "unset" /\ issued = <<>> /\ notes = <<>> /\ sheets = <<>>
    /\ eidx = 0 /\ file = "absent" /\ ok = "unset"

Next ==
    \/ ScriptMain \/ ScriptNextProject
    \/ ListCompute \/ CheckService \/ ListGke \/ SkipGke
    \/ ListFunctions \/ ListSql \/ ListStorage \/ ReturnResources
    \/ ScriptAsset \/ ExportSheet \/ ExportClose \/ ScriptUpload
    \/ PkgMain \/ PkgCollect \/ PkgExport \/ PkgUpload

Spec == Init /\ [][Next]_vars

---------------------------------------------------------------------------
(* Properties of the runs.                                                 *)

Issued(c, p) == \E i \in DOMAIN issued : issued[i] = Call(c, p)
NotedThat(n) == \E i \in DOMAIN notes : notes[i] = n
SkipNote(p) ==
    Note("Kubernetes Engine API not enabled; skipping GKE cluster listing", "", p)

Kinds == <<compute_instances, gke_clusters, cloud_functions, sql_instances, storage_buckets>>
GatherPcs == {"compute", "services", "gke", "functions", "sql", "storage", "return"}

\* The kind whose listing has just been stored on arriving at a position.
ListedAt(p) ==
    CASE p = "services" -> compute_instances
      [] p = "functions" -> gke_clusters
      [] p = "sql" -> cloud_functions
      [] p = "storage" -> sql_instances
      [] p = "return" -> storage_buckets

\* Outputs of `gcloud services list` that are a list without the service.
ServiceAbsent == {empty_list_line, dumps(ListV(<<ServiceOther>>))}

\* The check command failed, or printed a list without the service.
AbsentOrFailed(o) == ~o.raised /\ (~o.value.some \/ o.value.v \in ServiceAbsent)

\* The check answers false after each of them.
AbsentOrFailedIsFalse ==
    \A r \in ServiceResults :
       AbsentOrFailed(run_cmd(r)) => ~is_service_enabled(run_cmd(r).value, container_api)

\* The GKE cluster listing is issued only after the capability check for
\* the same project has answered true; when it answers false (the service is
\* absent from the list, or `gcloud services list` failed) no cluster
\* listing is issued, gke_clusters is the empty list, the skip is reported,
\* the gather goes on to the functions listing, and functions, SQL and
\* storage have been listed, in that order, where the gather returns.
GkeOnlyWhenEnabled ==
    /\ \A i \in DOMAIN issued :
          issued[i].cmd = "container clusters list" =>
             \E j \in 1..(i - 1) : issued[j] = Call("services list", issued[i].project)
    /\ AbsentOrFailedIsFalse
    /\ (impl = "script" /\ pc \in {"compute", "services"}) =>
          ~Issued("container clusters list", Project)
    /\ (impl = "script" /\ pc \in {"gke", "functions", "sql", "storage", "return"}) =>
          /\ enabled \in {"true", "false"}
          /\ Issued("services list", Project)
          /\ NotedThat(CommandFailed("services list", Project)) => enabled = "false"
          /\ pc = "gke" => ~Issued("container clusters list", Project)
          /\ (pc # "gke" /\ enabled = "true") =>
                /\ Issued("container clusters list", Project)
                /\ ~NotedThat(SkipNote(Project))
          /\ (pc # "gke" /\ enabled = "false") =>
                /\ ~Issued("container clusters list", Project)
                /\ Lookup(resources, gke_clusters) = ListV(<<>>)
                /\ NotedThat(SkipNote(Project))
          /\ pc \in {"sql", "storage", "return"} => Issued("functions list", Project)
          /\ pc \in {"storage", "return"} => Issued("sql instances list", Project)
          /\ pc = "return" => Issued("storage buckets list", Project)

\* The gather of project p is under way after its capability check.
Gathering(p) ==
    pc \in {"gke", "functions", "sql", "storage"} /\ pidx \in DOMAIN projects /\ Project = p

\* Once the cluster listing of a project has been skipped, functions, SQL
\* instances and storage buckets are queried for it: no run is past the
\* gather of the project, or ended, without them.
RemainingQueried ==
    impl = "script" =>
       \A i \in DOMAIN notes :
          (notes[i] = SkipNote(notes[i].key) /\ ~Gathering(notes[i].key)) =>
             /\ Issued("functions list", notes[i].key)
             /\ Issued("sql instances list", notes[i].key)
             /\ Issued("storage buckets list", notes[i].key)

\* C10 as stated: the GKE cluster listing is issued only after the
\* capability check has answered true; when it answers false (service
\* absent, or the check command failed) the cluster listing is never
\* issued, gke_clusters is the empty list with a diagnostic note, and the
\* remaining kinds (functions, SQL instances, storage buckets) are still
\* queried.
C10_AsStated == GkeOnlyWhenEnabled /\ RemainingQueried

\* The JSON texts a listing prints in the model, each with its document.
PrintedDocs ==
    {<<empty_list_line, ListV(<<>>)>>,
     <<listing_indented, ListV(<<RecNested>>)>>,
     <<dumps(ErrorObject), ErrorObject>>}

\* The steps of a gather that goes on: every listing step stores an entry
\* for its kind ([] when the command failed, the document when it printed
\* one), no step changes an earlier entry, the gather returns the five
\* kinds in order with all unconditional listings issued, and main files
\* them under the project's keys.
C6_Step ==
    impl = "script" =>
    /\ (pc \in GatherPcs /\ pc' \in GatherPcs /\ pc # "services" /\ issued' # issued) =>
          LET k == ListedAt(pc') IN
          /\ HasKey(resources', k)
          /\ notes' # notes => Lookup(resources', k) = ListV(<<>>)
          /\ \A d \in PrintedDocs : out' = Some(d[1]) => Lookup(resources', k) = d[2]
    /\ (pc \in GatherPcs /\ pc' \in GatherPcs) =>
          /\ Len(resources') >= Len(resources)
          /\ \A j \in DOMAIN resources : resources'[j] = resources[j]
    /\ pc' = "return" =>
          /\ Keys(resources') = Kinds
          /\ Issued("compute instances list", Project)'
          /\ Issued("functions list", Project)'
          /\ Issued("sql instances list", Project)'
          /\ Issued("storage buckets list", Project)'
    /\ pc = "return" =>
          \A i \in DOMAIN Kinds :
             /\ HasKey(combined', combined_key(Project, Kinds[i]))
             /\ Lookup(combined', combined_key(Project, Kinds[i])) = Lookup(resources, Kinds[i])

\* A listing command was run in this step.
ListingRun == impl = "script" /\ pc \in GatherPcs \ {"services"} /\ issued' # issued

\* C6 as stated: whatever a listing command does (success, failure, empty
\* output, unparsable output), the gather goes on: the kind has its entry,
\* [] if the command failed, every later kind is still queried, and the
\* ResourceSet is returned with the five kinds.
C6_AsStated == [][C6_Step /\ (ListingRun => pc' \in GatherPcs)]_vars

\* The entries of the ResourceSet the exporter's loop has been through.
Processed == 1..Min(eidx - 1, Len(combined))
SheetsFor(key) == {i \in DOMAIN sheets : sheets[i].key = key}
ExportEnded == pc \in {"upload", "done"} /\ eidx >= 1

\* The loop of the script's exporter goes on after a failure: every entry
\* it has been through without a failure has exactly one sheet of its own,
\* all of it written, whatever happened to earlier entries; an entry that
\* failed has at most one sheet, cut short; the sheets are named apart; and
\* the exporter ends only after every entry has been through the loop.
LoopContinues ==
    (impl = "script" /\ pc \in {"export", "upload", "done"} /\ eidx >= 1) =>
    /\ \A i \in Processed :
          IF NotedThat(FailedSheet(combined[i][1]))
          THEN /\ Cardinality(SheetsFor(combined[i][1])) <= 1
               /\ \A j \in SheetsFor(combined[i][1]) : ~sheets[j].complete
          ELSE /\ Cardinality(SheetsFor(combined[i][1])) = 1
               /\ \A j \in SheetsFor(combined[i][1]) : sheets[j].complete
    /\ \A i, j \in DOMAIN sheets : sheets[i].name = sheets[j].name => i = j
    /\ \A i \in DOMAIN sheets : \E j \in Processed : combined[j][1] = sheets[i].key
    /\ ExportEnded => eidx = Len(combined) + 1

\* The sheet of an entry that failed is skipped: the workbook has none for it.
FailedSheetSkipped ==
    (impl = "script" /\ pc \in {"export", "upload", "done"} /\ eidx >= 1) =>
       \A i \in Processed :
          NotedThat(FailedSheet(combined[i][1])) => SheetsFor(combined[i][1]) = {}

\* C8 as stated: in the script's exporter a failure while building or
\* writing the sheet of one entry is reported and that sheet is skipped,
\* and the loop goes on, so that every entry whose write does not fail has
\* its own sheet whatever happened to earlier entries.
C8_AsStated == LoopContinues /\ FailedSheetSkipped

\* C7 as stated: the exporter, given an empty ResourceSet, completes and
\* leaves a workbook with at least one (placeholder) sheet.
C7_AsStated ==
    /\ (impl = "script" /\ ExportEnded /\ combined = <<>>) =>
          /\ status # "raised"
          /\ file = "workbook"
          /\ Len(sheets) >= 1
    /\ (impl = "pkg" /\ pc = "upload" /\ assets = ListV(<<>>)) =>
          /\ file = "workbook"
          /\ Len(sheets) >= 1

SearchCmds == {"search_all_resources", "asset search-all-resources"}
IsSearchFailure(n) ==
    n.cmd \in SearchCmds /\ n.msg \in {"Cloud Asset client error", "Command failed"}
SearchFailed == \E i \in DOMAIN notes : IsSearchFailure(notes[i])
Uploads == {i \in DOMAIN issued : issued[i].cmd \in {"storage cp", "upload_from_filename"}}
Stopped ==
    /\ pc = "done" /\ status = "raised"
    /\ file = "absent" /\ sheets = <<>> /\ Uploads = {}
NoRetry ==
    \A i, j \in DOMAIN issued :
       (issued[i].cmd \in SearchCmds /\ issued[j].cmd \in SearchCmds
          /\ issued[i].project = issued[j].project) => i = j

\* C5 as stated: in both implementations a failure of the broad search ends
\* the run: the error propagates, nothing is written or uploaded, and the
\* search is not tried again.
C5_AsStated == SearchFailed => (Stopped /\ NoRetry)

\* The step in which a broad search fails.
SearchFails == Len(notes') = Len(notes) + 1 /\ IsSearchFailure(notes'[Len(notes')])

\* An exception leaves the script's gcloud search.
SearchRaises == impl = "script" /\ pc = "asset" /\ status' = "raised" /\ issued' # issued

C5_Step ==
    /\ NoRetry'
    /\ SearchRaises => (pc' = "done" /\ notes' = notes /\ combined' = combined
                         /\ file' = "absent" /\ sheets' = <<>>)
    /\ (impl = "pkg" /\ SearchFailed') => Stopped'
    /\ (impl = "pkg" /\ SearchFails) => (status' = "raised" /\ pc' = "done")
    /\ (impl = "script" /\ SearchFails) =>
          /\ status' = "running" /\ pc' = "project" /\ pidx' = pidx + 1
          /\ HasKey(combined', combined_key(Project, asset_resources))
          /\ Lookup(combined', combined_key(Project, asset_resources)) = assets'
          /\ \A i \in DOMAIN combined : combined'[i] = combined[i]

\* C5: a failure of the broad search is reported and never retried.  In the
\* package (collect_assets) it is raised again and ends the run with
\* nothing written or uploaded.  In the script (gather_asset_resources) it
\* is swallowed: what was collected before the failure is filed as the
\* project's entry and the run goes on to the next project.  Only when the
\* output of the script's gcloud search is not text does an exception end
\* the run, with nothing reported, written or uploaded.
C5_SearchFailurePerImplementation == [][C5_Step]_vars

\* The script's search failed and the run still wrote and uploaded a
\* workbook and ended normally.
C5_Witness ==
    /\ impl = "script" /\ SearchFailed
    /\ pc = "done" /\ status = "exit0" /\ file = "workbook"
    /\ Uploads # {} /\ ok = "true"

\* C9 as stated: once the workbook is written the upload never ends the
\* run abnormally: without a bucket it is skipped and no upload is issued,
\* and a failed upload is an ordinary result.
C9_AsStated ==
    (pc = "done" /\ file = "workbook") =>
    /\ status = "exit0"
    /\ ~Truthy(argv.bucket) => Uploads = {}

============================================================================
